---- MODULE Spec2Model ----
(***************************************************************************)
(* A model of the openclaw-secure egress proxy: the TCP listener with its  *)
(* CONNECT and HTTP arms (proxy/src/index.ts), the allowlist               *)
(* (proxy/src/allowlist.ts), the action API with its rate limiter          *)
(* (proxy/src/post-handler.ts) and the memory-store API                    *)
(* (proxy/src/memory-store.ts).                                            *)
(*                                                                         *)
(* JavaScript runs each handler without preemption up to its next `await`  *)
(* or socket callback, so one action is one such run-to-completion slice.  *)
(* Paths are sequences of segments ("/v1/messages" is <<"v1","messages">>, *)
(* "/" is <<>>); startsWith is the prefix relation on them.  An optional   *)
(* property of a JavaScript object is a record field that is present or    *)
(* absent.                                                                 *)
(***************************************************************************)
EXTENDS Integers, Sequences, FiniteSets, Bags, TLC

\* ------------------------------------------------------------------ bounds
MaxConn == 2        \* proxy connections open at once
MaxAct == 4         \* /post and /vote requests in flight at once
MaxMem == 2         \* /memory requests in flight at once
MaxTicks == 1       \* clock advances
MaxReloads == 2     \* SIGHUP signals handled
MaxHalfTicks == 3   \* clock advances of half an hour
MaxChunks == 3
MaxRedirects == 1      \* chunks of a string given to sanitize

VARIABLES
    config,         \* allowlist.ts  cachedConfig
    conn,           \* index.ts      the open client sockets (a bag of records)
    act,            \* post-handler.ts  the handlePostRequest calls in flight
    mem,            \* memory-store.ts  the handleMemoryRequest calls in flight
    rateWindows,    \* post-handler.ts  rateWindows
    now,            \* Date.now()
    ticks,          \* number of clock advances so far
    blobs,          \* the blob container behind BlobServiceClient
    done,           \* the request that terminated last, with what it wrote
    proc            \* the process: its phase and exit code, the config files
                    \* loadAllowlist has read, the last line of its own log

vars == <<config, conn, act, mem, rateWindows, now, ticks, blobs, done, proc>>

\* the process has not exited
alive == proc.phase # "exited"

\* goes on accepting connections after server.close()
listeningUntilExit == proc.phase # "exited"

\* the listener accepts connections: server.close() has not been called
listening == proc.phase = "running"

\* --------------------------------------------------------------- helpers
startsWith(s, p) == Len(p) <= Len(s) /\ SubSeq(s, 1, Len(p)) = p

toUpperCase(m) ==
    CASE m = "get" -> "GET"
      [] m = "post" -> "POST"
      [] OTHER -> m

\* Array.prototype.find: index of the first element with that domain, 0 if none
find(allowedDomains, hostname) ==
    IF \E i \in 1..Len(allowedDomains) : allowedDomains[i].domain = hostname
    THEN CHOOSE i \in 1..Len(allowedDomains) :
            /\ allowedDomains[i].domain = hostname
            /\ \A j \in 1..(i - 1) : allowedDomains[j].domain # hostname
    ELSE 0

\* ------------------------------------------------------------- allowlist
Config1 ==
    << [domain |-> "api.anthropic.com", methods |-> {"GET", "POST"},
        paths |-> << <<"v1", "messages">>, <<"v1", "complete">> >>] >>

Config2 ==
    << [domain |-> "api.anthropic.com", methods |-> {"POST"}],
       [domain |-> "api.anthropic.com", methods |-> {"CONNECT", "GET"},
        paths |-> << <<"v2">> >>] >>

Configs == {Config1, Config2}

\* decides on any entry of the domain that admits the request
isAllowedAnyEntry(hostname, method, path, cfg) ==
    LET upperMethod == toUpperCase(method)
        mine == { i \in 1..Len(cfg) : cfg[i].domain = hostname }
    IN  IF mine = {}
        THEN [allowed |-> FALSE,
              reason |-> <<"Domain not in allowlist: ", hostname>>]
        ELSE IF \E i \in mine :
                  /\ upperMethod \in cfg[i].methods
                  /\ ("paths" \in DOMAIN cfg[i] /\ Len(cfg[i].paths) > 0) =>
                        \E k \in 1..Len(cfg[i].paths) : startsWith(path, cfg[i].paths[k])
        THEN [allowed |-> TRUE]
        ELSE [allowed |-> FALSE,
              reason |-> <<"Method ", upperMethod, " not allowed for ", hostname>>]

isAllowed(hostname, method, path, cfg) ==
    LET i == find(cfg, hostname)
        upperMethod == toUpperCase(method)
    IN  IF i = 0
        THEN [allowed |-> FALSE,
              reason |-> <<"Domain not in allowlist: ", hostname>>]
        ELSE IF upperMethod \notin cfg[i].methods
        THEN [allowed |-> FALSE,
              reason |-> <<"Method ", upperMethod, " not allowed for ", hostname>>]
        ELSE IF /\ "paths" \in DOMAIN cfg[i]
                /\ Len(cfg[i].paths) > 0
                /\ ~ \E k \in 1..Len(cfg[i].paths) : startsWith(path, cfg[i].paths[k])
        THEN [allowed |-> FALSE,
              reason |-> <<"Path ", path, " not in allowed paths for ", hostname>>]
        ELSE [allowed |-> TRUE]

\* ---------------------------------------------------- allowlist: loading
\* the config file as loadAllowlist finds it: absent or unreadable
\* (readFileSync throws), not JSON (JSON.parse throws), or JSON with its value
missingFile == [kind |-> "missing"]
garbageFile == [kind |-> "garbage"]
jsonFile(value) == [kind |-> "json", value |-> value]

ConfigFiles == {missingFile, garbageFile} \cup { jsonFile(c) : c \in Configs }

\* assigns cachedConfig before it has parsed the file
loadAllowlistEager(file, cachedConfig) ==
    IF file.kind = "json"
    THEN [threw |-> FALSE, cachedConfig |-> file.value]
    ELSE [threw |-> TRUE, cachedConfig |-> <<>>]

\* readFileSync, JSON.parse, then `cachedConfig = config`: whether the call
\* threw, and cachedConfig as it leaves it
loadAllowlist(file, cachedConfig) ==
    IF file.kind = "missing"
    THEN [threw |-> TRUE, cachedConfig |-> cachedConfig]
    ELSE IF file.kind = "garbage"
    THEN [threw |-> TRUE, cachedConfig |-> cachedConfig]
    ELSE [threw |-> FALSE, cachedConfig |-> file.value]

\* process.exit has not been called
NoExit == 0 - 1

\* ------------------------------------------------------------ audit log
buildLogEntry(method, hostname, port, path) ==
    [method |-> method, hostname |-> hostname, port |-> port, path |-> path,
     allowed |-> FALSE, sanitized |-> FALSE]

\* --------------------------------------------------- index.ts: requests
ProxyHost == "10.0.2.4"
Hosts == {"api.anthropic.com", "evil.example.com", ProxyHost}
NoHost == "<no Host header>"
NoPort == 0

AbsolutePaths == { <<>>, <<"v1", "messages", "batches">>, <<"v2">> }
OriginPaths == { <<"health">>, <<"post">>, <<"v1", "messages">> }

\* the request heads a client can send
ConnectHeads ==
    [method : {"CONNECT"}, form : {"authority"}, host : Hosts,
     port : {NoPort, 8443}, path : {<<>>}, hostHeader : {NoHost}]

HttpHeads ==
    [method : {"GET", "post"}, form : {"absolute"},
     host : Hosts \ {ProxyHost}, port : {NoPort}, path : AbsolutePaths,
     hostHeader : {NoHost}]
    \cup
    [method : {"GET", "POST"}, form : {"origin"}, host : {""},
     port : {NoPort}, path : OriginPaths, hostHeader : {NoHost, ProxyHost, "api.anthropic.com"}]

Heads == ConnectHeads \cup HttpHeads

parseHostPort(head) ==
    [hostname |-> head.host, port |-> IF head.port # NoPort THEN head.port ELSE 443]

\* new URL(target) / new URL(target, `http://${host}`) in handleHttp
targetUrl(head) ==
    IF head.form = "absolute"
    THEN [hostname |-> head.host, port |-> IF head.port # NoPort THEN head.port ELSE 80,
          pathname |-> head.path]
    ELSE [hostname |-> IF head.hostHeader # NoHost THEN head.hostHeader ELSE "localhost",
          port |-> 80, pathname |-> head.path]

\* A request in flight, or terminated (pc = "closed"), with what it did so far:
\* the responses written to its client, the audit records logged for it, the
\* upstream connections and fetches opened for it, the number of recordRate
\* calls made for it.
Blank ==
    [pc |-> "idle", arm |-> "none", req |-> <<>>, entry |-> <<>>, cfg |-> <<>>,
     res |-> 0, limited |-> "", existed |-> FALSE, recorded |-> 0,
     latestBlob |-> <<>>, responseBody |-> "", headerEnd |-> 0,
     written |-> <<>>, records |-> <<>>, upstream |-> <<>>]

closed(r) == [r EXCEPT !.pc = "closed"]

add(bag, r) == bag (+) SetToBag({r})
remove(bag, r) == bag (-) SetToBag({r})

\* ------------------------------------------------ index.ts: handleConnect
\* answers 200 Connection Established before the upstream connection is made
handleConnectEager(head, currentConfig) ==
    LET hp == parseHostPort(head)
        entry == buildLogEntry("CONNECT", hp.hostname, hp.port, <<>>)
        domainEntry == find(currentConfig, hp.hostname)
        base == [Blank EXCEPT !.arm = "connect", !.req = head, !.cfg = currentConfig]
    IN  IF domainEntry = 0
        THEN LET denied == entry @@ [blocked_reason |->
                                <<"Domain not in allowlist: ", hp.hostname>>]
             IN  closed([base EXCEPT !.entry = denied,
                                     !.records = <<denied>>,
                                     !.written = << [status |-> 403,
                                                     error |-> "Forbidden"] >>])
        ELSE [base EXCEPT !.pc = "connecting",
                          !.entry = [entry EXCEPT !.allowed = TRUE],
                          !.written = << [status |-> 200] >>,
                          !.upstream = << [kind |-> "tcp", hostname |-> hp.hostname,
                                           port |-> hp.port, method |-> "CONNECT",
                                           path |-> <<>>] >>]

\* up to `targetSocket.connect(...)`; the result is the connection's record
handleConnect(head, currentConfig) ==
    LET hp == parseHostPort(head)
        entry == buildLogEntry("CONNECT", hp.hostname, hp.port, <<>>)
        domainEntry == find(currentConfig, hp.hostname)
        base == [Blank EXCEPT !.arm = "connect", !.req = head, !.cfg = currentConfig]
    IN  IF domainEntry = 0
        THEN LET denied == entry @@ [blocked_reason |->
                                <<"Domain not in allowlist: ", hp.hostname>>]
             IN  closed([base EXCEPT !.entry = denied,
                                     !.records = <<denied>>,
                                     !.written = << [status |-> 403,
                                                     error |-> "Forbidden"] >>])
        ELSE [base EXCEPT !.pc = "connecting",
                          !.entry = [entry EXCEPT !.allowed = TRUE],
                          !.upstream = << [kind |-> "tcp", hostname |-> hp.hostname,
                                           port |-> hp.port, method |-> "CONNECT",
                                           path |-> <<>>] >>]

\* --------------------------------------------------- index.ts: handleHttp
\* up to `await fetch(...)`
handleHttp(head, currentConfig) ==
    LET url == targetUrl(head)
        base == [Blank EXCEPT !.arm = "forward", !.req = head]
    IN  IF head.form = "origin" /\ head.path = <<"health">>
        THEN closed([base EXCEPT !.arm = "health", !.written = << [status |-> 200] >>])
        ELSE LET entry == buildLogEntry(head.method, url.hostname, url.port, url.pathname)
                 check == isAllowed(url.hostname, head.method, url.pathname, currentConfig)
             IN  IF ~ check.allowed
                 THEN LET denied == entry @@ [blocked_reason |-> check.reason]
                      IN  closed([base EXCEPT !.entry = denied,
                                              !.cfg = currentConfig,
                                              !.records = <<denied>>,
                                              !.written = << [status |-> 403,
                                                              error |-> "Forbidden"] >>])
                 ELSE [base EXCEPT !.pc = "fetching",
                                   !.cfg = currentConfig,
                                   !.entry = [entry EXCEPT !.allowed = TRUE],
                                   !.upstream = << [kind |-> "fetch",
                                                    hostname |-> url.hostname,
                                                    port |-> url.port,
                                                    method |-> head.method,
                                                    path |-> url.pathname] >>]

\* createNetServer connection handler: the request head is complete
onData ==
    /\ listening
    /\ BagCardinality(conn) < MaxConn
    /\ \E head \in Heads :
         LET r == IF head.method = "CONNECT"
                  THEN handleConnect(head, config)
                  ELSE handleHttp(head, config)
         IN  IF r.pc = "closed"
             THEN done' = r /\ conn' = conn
             ELSE conn' = add(conn, r) /\ done' = done
    /\ UNCHANGED <<proc, config, act, mem, rateWindows, now, ticks, blobs>>

\* the buffer length at which onData stops waiting for the end of the head
HeadLimit == 65536

\* the size of a chunk of a head that arrives in pieces
ChunkBytes == HeadLimit \div 2

\* handleConnect or handleHttp on the first line of the buffer; headerEnd is
\* what buffer.indexOf("\r\n\r\n") gave
dispatch(head, currentConfig, headerEnd) ==
    [ (IF head.method = "CONNECT"
       THEN handleConnect(head, currentConfig)
       ELSE handleHttp(head, currentConfig)) EXCEPT !.headerEnd = headerEnd ]

\* a chunk arrives that holds the request line but not the end of the head,
\* and the buffer stays below the limit: onData returns and waits
onDataPartial ==
    /\ listening
    /\ BagCardinality(conn) < MaxConn
    /\ \E head \in Heads :
         conn' = add(conn, [Blank EXCEPT !.pc = "buffering", !.req = head,
                                         !.res = ChunkBytes])
    /\ UNCHANGED <<proc, config, act, mem, rateWindows, now, ticks, blobs, done>>

\* the same, while no other connection is open
onDataPartialAlone ==
    /\ conn = EmptyBag
    /\ onDataPartial

\* the chunk with the end of the head arrives on a waiting connection
onDataTerminated ==
    /\ alive
    /\ \E c \in BagToSet(conn) :
         /\ c.pc = "buffering"
         /\ LET r == dispatch(c.req, config, c.res)
            IN  IF r.pc = "closed"
                THEN done' = r /\ conn' = remove(conn, c)
                ELSE conn' = add(remove(conn, c), r) /\ done' = done
    /\ UNCHANGED <<proc, config, act, mem, rateWindows, now, ticks, blobs>>

\* another chunk without the end of the head arrives and the buffer reaches
\* the limit: indexOf gave -1, the test `headerEnd === -1 && buffer.length <
\* 65536` fails, and onData goes on to parse buffer.subarray(0, -1)
onDataOverflow ==
    /\ alive
    /\ \E c \in BagToSet(conn) :
         /\ c.pc = "buffering"
         /\ c.res + ChunkBytes >= HeadLimit
         /\ LET r == dispatch(c.req, config, 0 - 1)
            IN  IF r.pc = "closed"
                THEN done' = r /\ conn' = remove(conn, c)
                ELSE conn' = add(remove(conn, c), r) /\ done' = done
    /\ UNCHANGED <<proc, config, act, mem, rateWindows, now, ticks, blobs>>

\* targetSocket.connect callback: 200, log, pipe
ConnectEstablished ==
    /\ alive
    /\ \E r \in BagToSet(conn) :
         /\ r.pc = "connecting"
         /\ conn' = add(remove(conn, r),
                        [r EXCEPT !.pc = "tunnel",
                                  !.written = Append(@, [status |-> 200]),
                                  !.records = Append(@, r.entry)])
    /\ UNCHANGED <<proc, config, act, mem, rateWindows, now, ticks, blobs, done>>

\* targetSocket.on("error"): log, 502, end; the socket's "close" follows
TargetError ==
    /\ alive
    /\ \E r \in BagToSet(conn) :
         /\ r.pc \in {"connecting", "tunnel"}
         /\ LET entry == r.entry @@ [response_status |-> 502]
            IN  done' = closed([r EXCEPT !.entry = entry,
                                         !.records = Append(@, entry),
                                         !.written = Append(@, [status |-> 502])])
         /\ conn' = remove(conn, r)
    /\ UNCHANGED <<proc, config, act, mem, rateWindows, now, ticks, blobs>>

\* an established tunnel ends: clientSocket "close"/"error" ends the target,
\* targetSocket "close" ends the client
TunnelClose ==
    /\ alive
    /\ \E r \in BagToSet(conn) :
         /\ r.pc = "tunnel"
         /\ done' = closed(r)
         /\ conn' = remove(conn, r)
    /\ UNCHANGED <<proc, config, act, mem, rateWindows, now, ticks, blobs>>

UpstreamStatus == {200, 500}

\* checks the request against the active config again when the fetch resolves
HttpResponseRechecked ==
    /\ alive
    /\ \E r \in BagToSet(conn), status \in UpstreamStatus :
         /\ r.pc = "fetching"
         /\ LET url == targetUrl(r.req)
                check == isAllowed(url.hostname, r.req.method, url.pathname, config)
                entry == [r.entry EXCEPT !.allowed = check.allowed]
                            @@ [response_status |-> status]
            IN  done' = closed([r EXCEPT !.entry = entry,
                                         !.cfg = config,
                                         !.res = status,
                                         !.records = Append(@, entry),
                                         !.written = Append(@,
                                            [status |-> IF check.allowed
                                                        THEN status ELSE 403])])
         /\ conn' = remove(conn, r)
    /\ UNCHANGED <<proc, config, act, mem, rateWindows, now, ticks, blobs>>

\* fetch and response.text() resolved: sanitize, log, relay
HttpResponse ==
    /\ alive
    /\ \E r \in BagToSet(conn), status \in UpstreamStatus, sanitized \in BOOLEAN :
         /\ r.pc = "fetching"
         /\ LET e1 == [r.entry EXCEPT !.sanitized = sanitized]
                         @@ [response_status |-> status]
                entry == IF sanitized
                         THEN e1 @@ [injection_patterns |-> <<"system_prompt_override">>]
                         ELSE e1
            IN  done' = closed([r EXCEPT !.entry = entry,
                                         !.res = status,
                                         !.records = Append(@, entry),
                                         !.written = Append(@, [status |-> status])])
         /\ conn' = remove(conn, r)
    /\ UNCHANGED <<proc, config, act, mem, rateWindows, now, ticks, blobs>>

\* fetch or response.text() rejected: the catch block
HttpFailure ==
    /\ alive
    /\ \E r \in BagToSet(conn) :
         /\ r.pc = "fetching"
         /\ LET entry == r.entry @@ [response_status |-> 502]
            IN  done' = closed([r EXCEPT !.entry = entry,
                                         !.records = Append(@, entry),
                                         !.written = Append(@, [status |-> 502,
                                                                error |-> "Bad Gateway"])])
         /\ conn' = remove(conn, r)
    /\ UNCHANGED <<proc, config, act, mem, rateWindows, now, ticks, blobs>>

\* request lines that are not `METHOD target VERSION`, as firstLine.split(" ")
\* yields them: a bare CONNECT, a bare GET, an absolute target that `new URL`
\* rejects, an empty method before an origin-form target
MalformedLines ==
    { <<"CONNECT">>, <<"GET">>, <<"GET", "http://", "HTTP/1.1">>,
      <<"", "/v1/messages", "HTTP/1.1">> }

\* the second element of a destructured array that has none
undefined == "<undefined>"

\* new URL(target) throws
invalidUrl(target) == target = "http://"

\* createNetServer connection handler for a malformed request line:
\* `const [method, target] = firstLine.split(" ")`, then handleConnect or
\* handleHttp. parseHostPort(undefined) throws a TypeError outside any try
\* block, inside the "data" listener: an uncaught exception ends the process.
\* In handleHttp `target.startsWith` and `new URL` throw inside the try block.
onDataMalformed ==
    /\ listening
    /\ BagCardinality(conn) < MaxConn
    /\ \E firstLine \in MalformedLines :
         LET method == firstLine[1]
             target == IF Len(firstLine) > 1 THEN firstLine[2] ELSE undefined
             base == [Blank EXCEPT !.arm = "malformed", !.req = firstLine]
         IN  IF method = "CONNECT" /\ target = undefined
             THEN /\ proc' = [proc EXCEPT !.phase = "exited", !.exitCode = 1,
                                  !.log = "TypeError: Cannot read properties of undefined (reading 'split')"]
                  /\ done' = [base EXCEPT !.pc = "thrown"]
             ELSE /\ proc' = proc
                  /\ done' =
                       IF target = undefined \/ invalidUrl(target)
                       THEN closed([base EXCEPT !.written = << [status |-> 400] >>])
                       ELSE [handleHttp([method |-> method, form |-> "origin",
                                         host |-> "", port |-> NoPort,
                                         path |-> <<"v1", "messages">>,
                                         hostHeader |-> NoHost], config)
                               EXCEPT !.arm = "malformed", !.req = firstLine]
    /\ UNCHANGED <<conn, config, act, mem, rateWindows, now, ticks, blobs>>

NextParse ==
    \/ onDataMalformed
    \/ onData
    \/ ConnectEstablished
    \/ TargetError
    \/ TunnelClose
    \/ HttpResponse
    \/ HttpFailure

\* where an upstream answer of status 302 or 307 can point: its Location
RedirectLocations ==
    { [hostname |-> "evil.example.com", port |-> 80, pathname |-> <<"collect">>],
      [hostname |-> "api.anthropic.com", port |-> 80, pathname |-> <<"v2">>] }

\* fetch with `redirect: "follow"`: the upstream answered with a redirect and
\* fetch requests the Location, with GET after a 302 to a POST and with the
\* method unchanged after a 307
HttpRedirected ==
    /\ alive
    /\ \E r \in BagToSet(conn), loc \in RedirectLocations, status \in {302, 307} :
         /\ r.arm = "forward"
         /\ r.pc = "fetching"
         /\ Len(r.upstream) <= MaxRedirects
         /\ LET last == r.upstream[Len(r.upstream)]
                method == IF status = 302 /\ last.method = "POST"
                          THEN "GET" ELSE last.method
            IN  conn' = add(remove(conn, r),
                            [r EXCEPT !.upstream = Append(@,
                                [kind |-> "fetch", hostname |-> loc.hostname,
                                 port |-> loc.port, method |-> method,
                                 path |-> loc.pathname])])
    /\ UNCHANGED <<proc, config, act, mem, rateWindows, now, ticks, blobs, done>>

\* heads that arrive in pieces
NextHead ==
    \/ onDataPartialAlone
    \/ onDataTerminated
    \/ onDataOverflow
    \/ ConnectEstablished
    \/ TargetError
    \/ TunnelClose
    \/ HttpResponse
    \/ HttpFailure

NextNet ==
    \/ onData
    \/ ConnectEstablished
    \/ TargetError
    \/ TunnelClose
    \/ HttpResponse
    \/ HttpFailure

\* ------------------------------------------------------------ sanitizer
\* A string is a sequence of chunks, read as their concatenation; a pattern is
\* given by the chunks its regular expression matches and by what the
\* expression asserts around a match: `before` is "line" for a leading ^ (flag
\* m), "boundary" for a leading \b; `after` is "boundary" for a trailing \b.
REPLACEMENT == "[SANITIZED: injection pattern detected]"

INJECTION_PATTERNS ==
    << [name |-> "system_prompt_override",
        matches |-> {"ignore previous instructions", "Ignore all previous instructions"},
        before |-> "any", after |-> "any"],
       [name |-> "system_prompt_override", matches |-> {"you are now a"},
        before |-> "any", after |-> "boundary"],
       [name |-> "system_prompt_override", matches |-> {"new system prompt"},
        before |-> "any", after |-> "any"],
       [name |-> "role_injection", matches |-> {"SYSTEM:"},
        before |-> "line", after |-> "any"],
       [name |-> "role_injection", matches |-> {"ASSISTANT:"},
        before |-> "line", after |-> "any"],
       [name |-> "role_injection", matches |-> {"<|im_start|>system"},
        before |-> "any", after |-> "any"],
       [name |-> "instruction_injection", matches |-> {"do not follow your previous"},
        before |-> "any", after |-> "any"],
       [name |-> "instruction_injection", matches |-> {"disregard your instructions"},
        before |-> "any", after |-> "any"],
       [name |-> "instruction_injection", matches |-> {"forget your instructions"},
        before |-> "any", after |-> "any"],
       [name |-> "data_exfiltration", matches |-> {"send this to https://"},
        before |-> "any", after |-> "any"],
       [name |-> "data_exfiltration", matches |-> {"fetch from https://"},
        before |-> "any", after |-> "any"],
       [name |-> "data_exfiltration", matches |-> {"curl "},
        before |-> "boundary", after |-> "any"],
       [name |-> "data_exfiltration", matches |-> {"wget "},
        before |-> "boundary", after |-> "any"] >>

BASE64_PAYLOADS ==
    << "ignore previous instructions", "you are now", "new system prompt",
       "forget your instructions", "disregard your instructions" >>

btoa(phrase) ==
    CASE phrase = "ignore previous instructions" -> "aWdub3JlIHByZXZpb3VzIGluc3RydWN0aW9ucw=="
      [] phrase = "you are now" -> "eW91IGFyZSBub3c="
      [] phrase = "new system prompt" -> "bmV3IHN5c3RlbSBwcm9tcHQ="
      [] phrase = "forget your instructions" -> "Zm9yZ2V0IHlvdXIgaW5zdHJ1Y3Rpb25z"
      [] phrase = "disregard your instructions" -> "ZGlzcmVnYXJkIHlvdXIgaW5zdHJ1Y3Rpb25z"

buildBase64Patterns ==
    [k \in 1..Len(BASE64_PAYLOADS) |->
        [name |-> "encoding_evasion", matches |-> {btoa(BASE64_PAYLOADS[k])},
         before |-> "any", after |-> "any"]]

ALL_PATTERNS == INJECTION_PATTERNS \o buildBase64Patterns

\* the first and the last character of a chunk are word characters (\w)
startsWithWord(chunk) ==
    chunk \notin {REPLACEMENT, " ", "\n", "<|im_start|>system"}

endsWithWord(chunk) ==
    chunk \notin {REPLACEMENT, " ", "\n", "curl ", "wget ", "SYSTEM:", "ASSISTANT:",
                  "send this to https://", "fetch from https://",
                  "aWdub3JlIHByZXZpb3VzIGluc3RydWN0aW9ucw==", "eW91IGFyZSBub3c=",
                  "bmV3IHN5c3RlbSBwcm9tcHQ="}

\* regex matches at chunk i of result
matchesAt(p, result, i) ==
    /\ result[i] \in p.matches
    /\ p.before = "line" => (i = 1 \/ result[i - 1] = "\n")
    /\ p.before = "boundary" =>
          (i = 1 \/ endsWithWord(result[i - 1]) # startsWithWord(result[i]))
    /\ p.after = "boundary" =>
          (i = Len(result) \/ startsWithWord(result[i + 1]) # endsWithWord(result[i]))

\* foundPatterns as a list: a name is added at every pattern that fires
RECURSIVE sanitizeLoop(_, _, _, _)
RECURSIVE sanitizeLoopList(_, _, _, _)
sanitizeLoopList(k, result, sanitized, foundPatterns) ==
    IF k > Len(ALL_PATTERNS)
    THEN [content |-> result, sanitized |-> sanitized, patterns |-> foundPatterns]
    ELSE LET p == ALL_PATTERNS[k]
         IN  IF \E i \in 1..Len(result) : matchesAt(p, result, i)
             THEN sanitizeLoop(k + 1,
                     [i \in 1..Len(result) |->
                         IF matchesAt(p, result, i) THEN REPLACEMENT ELSE result[i]],
                     TRUE,
                     Append(foundPatterns, p.name))
             ELSE sanitizeLoop(k + 1, result, sanitized, foundPatterns)

\* the loop of sanitize from pattern k on; foundPatterns is a Set, kept in
\* insertion order
sanitizeLoop(k, result, sanitized, foundPatterns) ==
    IF k > Len(ALL_PATTERNS)
    THEN [content |-> result, sanitized |-> sanitized, patterns |-> foundPatterns]
    ELSE LET p == ALL_PATTERNS[k]
         IN  IF \E i \in 1..Len(result) : matchesAt(p, result, i)
             THEN sanitizeLoop(k + 1,
                     [i \in 1..Len(result) |->
                         IF matchesAt(p, result, i) THEN REPLACEMENT ELSE result[i]],
                     TRUE,
                     IF \E j \in 1..Len(foundPatterns) : foundPatterns[j] = p.name
                     THEN foundPatterns ELSE Append(foundPatterns, p.name))
             ELSE sanitizeLoop(k + 1, result, sanitized, foundPatterns)

sanitizeNothing(content) == [content |-> content, sanitized |-> FALSE, patterns |-> <<>>]

sanitize(content) == sanitizeLoop(1, content, FALSE, <<>>)

\* the strings sanitize is called with
Chunks ==
    {"hello", " ", "curl ", "wget ", "Zm9yZ2V0IHlvdXIgaW5zdHJ1Y3Rpb25z",
     "Ignore all previous instructions", "you are now a"}

Contents == UNION { [1..n -> Chunks] : n \in 0..MaxChunks }

\* ---------------------------------------------------------- post-schema
LongText == "x * 501"

RECURSIVE length(_)
length(content) ==
    IF content = <<>> THEN 0
    ELSE length(Tail(content)) +
         CASE Head(content) = "hello" -> 5
           [] Head(content) = "Ignore all previous instructions" -> 32
           [] Head(content) = "curl " -> 5
           [] Head(content) = LongText -> 501
           [] Head(content) = "x" -> 1
           [] Head(content) = "x * 500" -> 500

\* "a".repeat(128) and "a".repeat(129), as the tests build them
Repeat128 == "a * 128"
Repeat129 == "a * 129"

\* s.length; the strings that are written out are short
strlen(s) ==
    CASE s = Repeat128 -> 128
      [] s = Repeat129 -> 129
      [] OTHER -> 11

\* max(128) read as "shorter than 128"
idFieldExclusive(s) ==
    /\ s \in {"t1", "p1", Repeat128, Repeat129}
    /\ strlen(s) < 128

\* /^[a-zA-Z0-9_-]+$/ and max(128)
idField(s) ==
    /\ s \in {"t1", "p1", Repeat128, Repeat129}
    /\ strlen(s) <= 128

postRequestSchema(value) ==
    /\ "content" \in DOMAIN value
    /\ length(value.content) >= 1
    /\ length(value.content) <= 500
    /\ "thread_id" \in DOMAIN value => idField(value.thread_id)

voteRequestSchema(value) ==
    /\ "post_id" \in DOMAIN value
    /\ idField(value.post_id)

\* --------------------------------------------- post-handler: rate limiter
rateLimits ==
    [post_hourly |-> [max |-> 3, windowMs |-> 60 * 60 * 1000],
     post_daily |-> [max |-> 10, windowMs |-> 24 * 60 * 60 * 1000],
     vote_hourly |-> [max |-> 20, windowMs |-> 60 * 60 * 1000]]

\* keeps every timestamp, whatever its age
checkRateLimitNoPrune(key, windows, t) ==
    IF key \notin DOMAIN rateLimits \/ key \notin DOMAIN windows
    THEN [allowed |-> TRUE, windows |-> windows]
    ELSE IF Len(windows[key]) >= rateLimits[key].max
         THEN [allowed |-> FALSE, windows |-> windows,
               reason |-> <<"Rate limit exceeded: ", key>>]
         ELSE [allowed |-> TRUE, windows |-> windows]

\* takes the slot it grants
checkRateLimitRecording(key, windows, t) ==
    IF key \notin DOMAIN rateLimits \/ key \notin DOMAIN windows
    THEN [allowed |-> TRUE, windows |-> windows]
    ELSE LET limit == rateLimits[key]
             pruned == [windows EXCEPT ![key] =
                            SelectSeq(@, LAMBDA x : t - x < limit.windowMs)]
         IN  IF Len(pruned[key]) >= limit.max
             THEN [allowed |-> FALSE, windows |-> pruned,
                   reason |-> <<"Rate limit exceeded: ", key>>]
             ELSE [allowed |-> TRUE,
                   windows |-> [pruned EXCEPT ![key] = Append(@, t)]]

\* the result carries the windows as the call leaves them
checkRateLimit(key, windows, t) ==
    IF key \notin DOMAIN rateLimits \/ key \notin DOMAIN windows
    THEN [allowed |-> TRUE, windows |-> windows]
    ELSE LET limit == rateLimits[key]
             pruned == [windows EXCEPT ![key] =
                            SelectSeq(@, LAMBDA x : t - x < limit.windowMs)]
         IN  IF Len(pruned[key]) >= limit.max
             THEN [allowed |-> FALSE, windows |-> pruned,
                   reason |-> <<"Rate limit exceeded: ", key>>]
             ELSE [allowed |-> TRUE, windows |-> pruned]

\* pushes the time onto every window
recordRateAll(key, windows, t) ==
    IF key \in DOMAIN windows
    THEN [k \in DOMAIN windows |-> Append(windows[k], t)]
    ELSE windows

recordRate(key, windows, t) ==
    IF key \in DOMAIN windows
    THEN [windows EXCEPT ![key] = Append(@, t)]
    ELSE windows

\* ------------------------------------------------- post-handler: logging
logPostAttempt(entry) ==
    LET base == [method |-> "POST", hostname |-> "moltbook.com", port |-> 443,
                 path |-> IF entry.action = "post"
                          THEN <<"api", "v1", "posts">> ELSE <<"api", "v1", "votes">>,
                 allowed |-> entry.allowed, sanitized |-> FALSE]
        b1 == IF "blocked_reason" \in DOMAIN entry
              THEN base @@ [blocked_reason |-> entry.blocked_reason] ELSE base
    IN  IF "moltbook_status" \in DOMAIN entry
        THEN b1 @@ [response_status |-> entry.moltbook_status] ELSE b1

\* ----------------------------------------------- post-handler: handlePost
\* a step of a handler: the request's record and the rate windows after it
step(r, windows) == [r |-> r, windows |-> windows]

\* handlePost up to `await fetch(...)`
handlePost(req, windows, t) ==
    LET logEntry == [action |-> "post", allowed |-> FALSE]
        base == [Blank EXCEPT !.arm = "post", !.req = req]
    IN  IF req.body.kind # "json"
        THEN step(closed([base EXCEPT !.entry = logEntry,
                                      !.records = <<logPostAttempt(logEntry)>>,
                                      !.written = << [status |-> 400,
                                                      error |-> "Invalid JSON"] >>]),
                  windows)
        ELSE IF ~ postRequestSchema(req.body.value)
        THEN LET e == logEntry @@ [blocked_reason |-> <<"Schema validation failed">>]
             IN  step(closed([base EXCEPT !.entry = e,
                                          !.records = <<logPostAttempt(e)>>,
                                          !.written = << [status |-> 400,
                                                  error |-> "Schema validation failed"] >>]),
                      windows)
        ELSE
        LET data == req.body.value
            e0 == logEntry @@ [content_length |-> length(data.content)]
            e1 == IF "thread_id" \in DOMAIN data
                  THEN e0 @@ [thread_id |-> data.thread_id] ELSE e0
            hourlyCheck == checkRateLimit("post_hourly", windows, t)
        IN  IF ~ hourlyCheck.allowed
            THEN LET e == e1 @@ [blocked_reason |-> hourlyCheck.reason]
                 IN  step(closed([base EXCEPT !.entry = e,
                                              !.limited = "post_hourly",
                                              !.records = <<logPostAttempt(e)>>,
                                              !.written = << [status |-> 429,
                                                      error |-> hourlyCheck.reason] >>]),
                          hourlyCheck.windows)
            ELSE
            LET dailyCheck == checkRateLimit("post_daily", hourlyCheck.windows, t)
            IN  IF ~ dailyCheck.allowed
                THEN LET e == e1 @@ [blocked_reason |-> dailyCheck.reason]
                     IN  step(closed([base EXCEPT !.entry = e,
                                                  !.limited = "post_daily",
                                                  !.records = <<logPostAttempt(e)>>,
                                                  !.written = << [status |-> 429,
                                                          error |-> dailyCheck.reason] >>]),
                              dailyCheck.windows)
                ELSE
                LET scanResult == sanitize(data.content)
                IN  IF scanResult.sanitized
                    THEN LET e == e1 @@ [blocked_reason |->
                                    <<"Injection patterns detected: ">> \o scanResult.patterns]
                         IN  step(closed([base EXCEPT !.entry = e,
                                      !.records = <<logPostAttempt(e)>>,
                                      !.written = << [status |-> 400,
                                          error |-> "Content contains disallowed patterns",
                                          patterns |-> scanResult.patterns] >>]),
                                  dailyCheck.windows)
                    ELSE step([base EXCEPT !.pc = "fetching",
                                  !.entry = e1,
                                  !.records = << [method |-> "POST",
                                                  hostname |-> "moltbook.com",
                                                  port |-> 443,
                                                  path |-> <<"api", "v1", "posts">>,
                                                  allowed |-> TRUE,
                                                  sanitized |-> FALSE] >>,
                                  !.upstream = << [kind |-> "fetch",
                                      hostname |-> "www.moltbook.com", port |-> 443,
                                      method |-> "POST",
                                      path |-> IF "thread_id" \in DOMAIN data
                                               THEN <<"api", "v1", "posts",
                                                      data.thread_id, "comments">>
                                               ELSE <<"api", "v1", "posts">>] >>],
                              dailyCheck.windows)

\* handleVote up to `await fetch(...)`
handleVote(req, windows, t) ==
    LET logEntry == [action |-> "vote", allowed |-> FALSE]
        base == [Blank EXCEPT !.arm = "vote", !.req = req]
    IN  IF req.body.kind # "json"
        THEN step(closed([base EXCEPT !.entry = logEntry,
                                      !.records = <<logPostAttempt(logEntry)>>,
                                      !.written = << [status |-> 400,
                                                      error |-> "Invalid JSON"] >>]),
                  windows)
        ELSE IF ~ voteRequestSchema(req.body.value)
        THEN LET e == logEntry @@ [blocked_reason |-> <<"Schema validation failed">>]
             IN  step(closed([base EXCEPT !.entry = e,
                                          !.records = <<logPostAttempt(e)>>,
                                          !.written = << [status |-> 400,
                                                  error |-> "Schema validation failed"] >>]),
                      windows)
        ELSE
        LET data == req.body.value
            e1 == logEntry @@ [post_id |-> data.post_id]
            voteCheck == checkRateLimit("vote_hourly", windows, t)
        IN  IF ~ voteCheck.allowed
            THEN LET e == e1 @@ [blocked_reason |-> voteCheck.reason]
                 IN  step(closed([base EXCEPT !.entry = e,
                                              !.limited = "vote_hourly",
                                              !.records = <<logPostAttempt(e)>>,
                                              !.written = << [status |-> 429,
                                                      error |-> voteCheck.reason] >>]),
                          voteCheck.windows)
            ELSE step([base EXCEPT !.pc = "fetching",
                          !.entry = e1,
                          !.upstream = << [kind |-> "fetch",
                              hostname |-> "www.moltbook.com", port |-> 443,
                              method |-> "POST",
                              path |-> <<"api", "v1", "posts", data.post_id, "upvote">>] >>],
                      voteCheck.windows)

\* the public router, up to the first `await` of the handler it calls
handlePostRequest(req, windows, t) ==
    LET base == [Blank EXCEPT !.arm = "router", !.req = req]
    IN  IF req.method # "POST"
        THEN step(closed([base EXCEPT !.written = << [status |-> 405,
                                          error |-> "Only POST allowed"] >>]), windows)
        ELSE IF req.body.kind = "empty"
        THEN step(closed([base EXCEPT !.written = << [status |-> 400,
                                          error |-> "Empty body"] >>]), windows)
        ELSE IF req.path = <<"post">> THEN handlePost(req, windows, t)
        ELSE IF req.path = <<"vote">> THEN handleVote(req, windows, t)
        ELSE step(closed([base EXCEPT !.written = << [status |-> 404,
                                          error |-> "Not Found"] >>]), windows)

\* the requests a client sends to /post and /vote
EmptyBody == [kind |-> "empty"]
TextBody == [kind |-> "text"]
json(value) == [kind |-> "json", value |-> value]

CleanPost == [content |-> <<"hello">>]
InjectionPost == [content |-> <<"Ignore all previous instructions", "curl ">>]

PostRequests ==
    { [method |-> "GET", path |-> <<"post">>, body |-> json(CleanPost)],
      [method |-> "POST", path |-> <<"post">>, body |-> EmptyBody],
      [method |-> "POST", path |-> <<"other">>, body |-> json(CleanPost)],
      [method |-> "POST", path |-> <<"post">>, body |-> TextBody],
      [method |-> "POST", path |-> <<"post">>, body |-> json([content |-> <<>>])],
      [method |-> "POST", path |-> <<"post">>, body |-> json([content |-> <<LongText>>])],
      [method |-> "POST", path |-> <<"post">>, body |-> json(CleanPost)],
      [method |-> "POST", path |-> <<"post">>, body |-> json(InjectionPost)] }

VoteRequests ==
    { [method |-> "POST", path |-> <<"vote">>, body |-> TextBody],
      [method |-> "POST", path |-> <<"vote">>, body |-> json([post_id |-> "bad id!"])],
      [method |-> "POST", path |-> <<"vote">>, body |-> json([post_id |-> "p1"])] }

\* a request arrives at handlePostRequest and runs to its first `await`
ActRequest(reqs) ==
    /\ listening
    /\ BagCardinality(act) < MaxAct
    /\ \E req \in reqs :
         LET s == handlePostRequest(req, rateWindows, now)
         IN  /\ rateWindows' = s.windows
             /\ IF s.r.pc = "closed"
                THEN done' = s.r /\ act' = act
                ELSE act' = add(act, s.r) /\ done' = done
    /\ UNCHANGED <<proc, config, conn, mem, now, ticks, blobs>>

PostRequest == ActRequest(PostRequests)
VoteRequest == ActRequest(VoteRequests)

\* every upstream answer counts as a success
okAlways(status) == TRUE

ok(status) == status >= 200 /\ status <= 299

\* what `await res.text()` yields: a JSON document or an error page
UpstreamBodies == {"{\"id\":\"p9\"}", "<html>Service Unavailable</html>"}

\* handlePost: JSON.parse(responseBody), or { raw: responseBody } when it throws
responseData(responseBody) ==
    IF responseBody = "{\"id\":\"p9\"}"
    THEN [id |-> "p9"]
    ELSE [raw |-> responseBody]

\* `await fetch(...)` resolved: up to `await res.text()`
ActFetchResolved ==
    /\ alive
    /\ \E r \in BagToSet(act), status \in UpstreamStatus :
         /\ r.pc = "fetching"
         /\ LET e == [r.entry EXCEPT !.allowed = TRUE] @@ [moltbook_status |-> status]
                w == IF r.arm = "post"
                     THEN recordRate("post_daily",
                              recordRate("post_hourly", rateWindows, now), now)
                     ELSE recordRate("vote_hourly", rateWindows, now)
            IN  /\ rateWindows' = w
                /\ act' = add(remove(act, r),
                              [r EXCEPT !.pc = "reading", !.entry = e, !.res = status,
                                        !.recorded = IF r.arm = "post" THEN 2 ELSE 1])
    /\ UNCHANGED <<proc, config, conn, mem, now, ticks, blobs, done>>

\* `await res.text()` resolved: log, then 200 or 502
ActBodyRead ==
    /\ alive
    /\ \E r \in BagToSet(act), responseBody \in UpstreamBodies :
         /\ r.pc = "reading"
         /\ done' = closed([r EXCEPT
                !.responseBody = responseBody,
                !.records = Append(@, logPostAttempt(r.entry)),
                !.written = << IF ~ ok(r.res)
                               THEN [status |-> 502, error |-> "Moltbook returned error",
                                     moltbook_status |-> r.res, body |-> responseBody]
                               ELSE IF r.arm = "post"
                               THEN [status |-> 200, ok |-> TRUE,
                                     moltbook_status |-> r.res,
                                     data |-> responseData(responseBody)]
                               ELSE [status |-> 200, ok |-> TRUE,
                                     moltbook_status |-> r.res] >>])
         /\ act' = remove(act, r)
    /\ UNCHANGED <<proc, config, conn, mem, rateWindows, now, ticks, blobs>>

\* `await fetch(...)` or `await res.text()` rejected: the catch block
ActFetchRejected ==
    /\ alive
    /\ \E r \in BagToSet(act) :
         /\ r.pc \in {"fetching", "reading"}
         /\ LET e == r.entry @@ [blocked_reason |-> <<"Moltbook request failed: ">>]
            IN  done' = closed([r EXCEPT
                    !.entry = e,
                    !.records = Append(@, logPostAttempt(e)),
                    !.written = << [status |-> 502,
                                    error |-> "Failed to reach Moltbook",
                                    message |-> "fetch failed"] >>])
         /\ act' = remove(act, r)
    /\ UNCHANGED <<proc, config, conn, mem, rateWindows, now, ticks, blobs>>

\* ------------------------------------------------------------- the clock
TickMs == 60 * 60 * 1000

Tick ==
    /\ ticks < MaxTicks
    /\ ticks' = ticks + 1
    /\ now' = now + TickMs
    /\ UNCHANGED <<proc, config, conn, act, mem, rateWindows, blobs, done>>

\* the clock advances by half an hour
HalfTick ==
    /\ ticks < MaxHalfTicks
    /\ ticks' = ticks + 1
    /\ now' = now + TickMs \div 2
    /\ UNCHANGED <<proc, config, conn, act, mem, rateWindows, blobs, done>>

\* a /post request arrives while no other is in flight
PostRequestAlone ==
    /\ act = EmptyBag
    /\ PostRequest

\* /post requests handled one after another
NextActSeq ==
    \/ PostRequestAlone
    \/ ActFetchResolved
    \/ ActBodyRead
    \/ ActFetchRejected
    \/ HalfTick

NextAct ==
    \/ PostRequest
    \/ ActFetchResolved
    \/ ActBodyRead
    \/ ActFetchRejected
    \/ Tick

NextVote ==
    \/ VoteRequest
    \/ ActFetchResolved
    \/ ActBodyRead
    \/ ActFetchRejected
    \/ Tick

\* a /vote request arrives while no other request is in flight
VoteRequestAlone ==
    /\ act = EmptyBag
    /\ VoteRequest

\* /post and /vote requests handled one after another, within one hour
NextRelay ==
    \/ PostRequestAlone
    \/ VoteRequestAlone
    \/ ActFetchResolved
    \/ ActBodyRead
    \/ ActFetchRejected

\* ----------------------------------------------------------- memory-store
MAX_MEMORY_SIZE_BYTES == 1048576

\* a request body: its size in bytes and what JSON.parse makes of it
memBody(len, kind, value) == [len |-> len, kind |-> kind, value |-> value]

\* an array of n entries, each a copy of entry
repeat(entry, n) == [entry |-> entry, n |-> n]

postSeenEntry(post_id) == [type |-> "post_seen", post_id |-> post_id]

MemoryFileWith(run_id, posts_read, entries) ==
    [version |-> 1, run_id |-> run_id, run_start |-> "2026-02-20T00:00:00Z",
     posts_read |-> posts_read, entries |-> entries]

MemoryFile(run_id, posts_read) ==
    MemoryFileWith(run_id, posts_read, repeat(postSeenEntry("p1"), 0))

\* /^[a-f0-9-]+(-(cp|checkpoint)\d+)?$/ and max(128)
runIdField(s) ==
    /\ s \in {"abc-123", "abc-123-cp3", Repeat128, Repeat129}
    /\ strlen(s) <= 128

\* z.discriminatedUnion("type", ...), of which postSeenEntry is modelled
memoryEntry(e) ==
    /\ e.type = "post_seen"
    /\ idField(e.post_id)

validateMemory(value) ==
    /\ value.version = 1
    /\ runIdField(value.run_id)
    /\ value.entries.n <= 10000
    /\ value.entries.n > 0 => memoryEntry(value.entries.entry)
    /\ value.posts_read >= 0

\* the keys of memoryFileSchema; z.object strips the others from result.data
memoryFileSchema == {"version", "run_id", "run_start", "posts_read", "entries"}

\* validation.data: the parsed document without its unknown keys
validated(value) == [k \in DOMAIN value \cap memoryFileSchema |-> value[k]]

\* a document with a key the schema does not define
FreeText == "free-form text"
Annotated(file) == file @@ [note |-> FreeText]

MemRequests ==
    { [method |-> "GET", path |-> <<"memory">>, body |-> memBody(0, "empty", <<>>)],
      [method |-> "POST", path |-> <<"memory">>, body |-> memBody(0, "empty", <<>>)],
      [method |-> "POST", path |-> <<"memory">>,
       body |-> memBody(MAX_MEMORY_SIZE_BYTES + 1, "json", MemoryFile("abc-123", 0))],
      [method |-> "POST", path |-> <<"memory">>, body |-> memBody(8, "text", <<>>)],
      [method |-> "POST", path |-> <<"memory">>,
       body |-> memBody(90, "json", MemoryFile("has spaces!", 0))],
      [method |-> "POST", path |-> <<"memory">>,
       body |-> memBody(90, "json", MemoryFile("abc-123", 0))],
      [method |-> "POST", path |-> <<"memory">>,
       body |-> memBody(MAX_MEMORY_SIZE_BYTES + 1, "text", <<>>)],
      [method |-> "POST", path |-> <<"memory">>,
       body |-> memBody(120, "json", Annotated(MemoryFile("abc-123", 7)))],
      [method |-> "POST", path |-> <<"memory">>,
       body |-> memBody(MAX_MEMORY_SIZE_BYTES, "json", MemoryFile("abc-123-cp3", 0))] }

GetLatest == [method |-> "GET", path |-> <<"memory", "latest">>,
              body |-> memBody(0, "empty", <<>>)]

\* `memory/${data.run_id}.json`
blobName(run_id) == <<"memory/", run_id, ".json">>

\* blobClient.exists()
existsNever(store, name) == FALSE

exists(store, name) == name \in DOMAIN store

\* the store's clock: properties.lastModified of the blob written last
RECURSIVE lastWrite(_)
lastWrite(store) ==
    IF DOMAIN store = {} THEN 0
    ELSE LET name == CHOOSE n \in DOMAIN store : TRUE
             rest == lastWrite([n \in DOMAIN store \ {name} |-> store[n]])
         IN  IF store[name].lastModified > rest THEN store[name].lastModified ELSE rest

\* a write of blob `name`: the store stamps it with a later lastModified;
\* `uploads` counts the uploads that wrote this blob
put(store, name, body, metadata) ==
    (name :> [body |-> body,
              blobContentType |-> "application/json",
              metadata |-> metadata,
              lastModified |-> lastWrite(store) + 1,
              uploads |-> IF name \in DOMAIN store THEN store[name].uploads + 1 ELSE 1])
    @@ store

\* stores the validated document instead of the request's bytes
uploadValidated(store, name, body, data) ==
    put(store, name, [body EXCEPT !.value = data],
        [run_id |-> data.run_id, run_start |-> data.run_start,
         analyzed |-> "false", approved |-> "false"])

\* blobClient.upload(body, body.length, {blobHTTPHeaders, metadata})
upload(store, name, body, data) ==
    put(store, name, body,
        [run_id |-> data.run_id, run_start |-> data.run_start,
         analyzed |-> "false", approved |-> "false"])

\* rejects a body of exactly the limit as well
exceedsOrEquals(body) == body.len >= MAX_MEMORY_SIZE_BYTES

\* `body.length > MAX_MEMORY_SIZE_BYTES`
exceeds(body) == body.len > MAX_MEMORY_SIZE_BYTES

\* handleMemoryRequest up to the first `await` of its handlePost
\* (`blobClient.exists()`) or of its handleGetLatest (the blob listing)
handleMemoryRequest(req, store) ==
    LET base == [Blank EXCEPT !.arm = "memory", !.req = req]
        body == req.body
    IN  IF req.method = "GET" /\ req.path = <<"memory", "latest">>
        THEN [base EXCEPT !.pc = "listing"]
        ELSE IF ~ (req.method = "POST" /\ req.path = <<"memory">>)
        THEN closed([base EXCEPT !.written = << [status |-> 404,
                                                 error |-> "Not Found"] >>])
        ELSE IF body.len = 0
        THEN closed([base EXCEPT !.written = << [status |-> 400,
                                                 error |-> "Empty body"] >>])
        ELSE IF exceeds(body)
        THEN closed([base EXCEPT !.written = << [status |-> 413,
                                     error |-> "Memory file exceeds 1MB limit"] >>])
        ELSE IF body.kind # "json"
        THEN closed([base EXCEPT !.written = << [status |-> 400,
                                                 error |-> "Invalid JSON"] >>])
        ELSE IF ~ validateMemory(body.value)
        THEN closed([base EXCEPT !.written = << [status |-> 400,
                                     error |-> "Schema validation failed"] >>])
        ELSE [base EXCEPT !.pc = "exists",
                          !.existed = blobName(body.value.run_id) \in DOMAIN store]

\* a /memory request arrives and runs to its first `await`
MemArrives ==
    \E req \in MemRequests :
        LET r == handleMemoryRequest(req, blobs)
        IN  IF r.pc = "closed"
            THEN done' = r /\ mem' = mem
            ELSE mem' = add(mem, r) /\ done' = done

MemRequest ==
    /\ listening
    /\ BagCardinality(mem) < MaxMem
    /\ MemArrives
    /\ UNCHANGED <<proc, config, conn, act, rateWindows, now, ticks, blobs>>

\* the same, with requests handled one after another
MemRequestAlone ==
    /\ listening
    /\ mem = EmptyBag
    /\ MemArrives
    /\ UNCHANGED <<proc, config, conn, act, rateWindows, now, ticks, blobs>>

\* `await blobClient.exists()` resolved: 409, or on to `await blobClient.upload(...)`
MemExistsResolved ==
    /\ alive
    /\ \E r \in BagToSet(mem) :
         /\ r.pc = "exists"
         /\ IF exists(blobs, blobName(r.req.body.value.run_id))
            THEN /\ done' = closed([r EXCEPT !.written = << [status |-> 409,
                         error |-> "Memory blob already exists for this run_id"] >>])
                 /\ mem' = remove(mem, r)
            ELSE /\ mem' = add(remove(mem, r), [r EXCEPT !.pc = "upload"])
                 /\ done' = done
    /\ UNCHANGED <<proc, config, conn, act, rateWindows, now, ticks, blobs>>

\* `await blobClient.upload(...)` resolved: the blob is written, 200; `posted`
\* remembers the document of the request this upload was made for
MemUploadResolved ==
    /\ alive
    /\ \E r \in BagToSet(mem) :
         /\ r.pc = "upload"
         /\ LET name == blobName(r.req.body.value.run_id)
            IN  blobs' = [upload(blobs, name, r.req.body, validated(r.req.body.value))
                            EXCEPT ![name] = @ @@ [posted |-> r.req.body.value]]
         /\ done' = closed([r EXCEPT !.written = << [status |-> 200, ok |-> TRUE] >>])
         /\ mem' = remove(mem, r)
    /\ UNCHANGED <<proc, config, conn, act, rateWindows, now, ticks>>

\* a store call rejected: the catch block of handleMemoryRequest
MemStoreRejected ==
    /\ alive
    /\ \E r \in BagToSet(mem) :
         /\ r.pc \in {"exists", "upload", "listing", "download"}
         /\ done' = closed([r EXCEPT
                !.records = << [method |-> r.req.method, hostname |-> "localhost",
                                port |-> 3128, path |-> r.req.path,
                                allowed |-> TRUE, sanitized |-> FALSE] >>,
                !.written = << [status |-> 500, error |-> "Internal error"] >>])
         /\ mem' = remove(mem, r)
    /\ UNCHANGED <<proc, config, conn, act, rateWindows, now, ticks, blobs>>

\* ------------------------------------------ memory-store: handleGetLatest
\* the loop over listBlobsFlat({prefix: "memory/", includeMetadata: true}):
\* the name of the approved blob with the greatest lastModified, <<>> if none
latestApproved(store) ==
    LET approved == { n \in DOMAIN store :
                        /\ startsWith(n, <<"memory/">>)
                        /\ "approved" \in DOMAIN store[n].metadata
                        /\ store[n].metadata.approved = "true" }
    IN  IF approved = {} THEN <<>>
        ELSE CHOOSE n \in approved :
                \A m \in approved : store[m].lastModified <= store[n].lastModified

\* GET /memory/latest arrives and runs to its first `await`
LatestRequest ==
    /\ listening
    /\ BagCardinality(mem) < MaxMem
    /\ mem' = add(mem, handleMemoryRequest(GetLatest, blobs))
    /\ UNCHANGED <<proc, config, conn, act, rateWindows, now, ticks, blobs, done>>

\* the listing is complete: 200 with data null, or on to `await download(0)`
MemListResolved ==
    /\ alive
    /\ \E r \in BagToSet(mem) :
         /\ r.pc = "listing"
         /\ LET latestBlob == latestApproved(blobs)
            IN  IF latestBlob = <<>>
                THEN /\ done' = closed([r EXCEPT !.written =
                            << [status |-> 200, ok |-> TRUE, data |-> "null",
                                message |-> "No approved memory found"] >>])
                     /\ mem' = remove(mem, r)
                ELSE /\ mem' = add(remove(mem, r),
                                   [r EXCEPT !.pc = "download",
                                             !.latestBlob = latestBlob])
                     /\ done' = done
    /\ UNCHANGED <<proc, config, conn, act, rateWindows, now, ticks, blobs>>

\* the download is complete: 200 with JSON.parse of the blob's content
MemDownloadResolved ==
    /\ alive
    /\ \E r \in BagToSet(mem) :
         /\ r.pc = "download"
         /\ r.latestBlob \in DOMAIN blobs
         /\ done' = closed([r EXCEPT !.written =
                << [status |-> 200, ok |-> TRUE,
                    data |-> blobs[r.latestBlob].body.value] >>])
         /\ mem' = remove(mem, r)
    /\ UNCHANGED <<proc, config, conn, act, rateWindows, now, ticks, blobs>>

\* --------------------------------------------------------------- analyzer
\* findLatestUnanalyzed: the memory blob not yet analyzed with the greatest
\* lastModified, <<>> if none
findLatestUnanalyzed(store) ==
    LET open == { n \in DOMAIN store :
                    /\ startsWith(n, <<"memory/">>)
                    /\ ~ ("analyzed" \in DOMAIN store[n].metadata
                            /\ store[n].metadata.analyzed = "true") }
    IN  IF open = {} THEN <<>>
        ELSE CHOOSE n \in open :
                \A m \in open : store[m].lastModified <= store[n].lastModified

\* blobClient.setMetadata(metadata): the blob keeps its content
setMetadata(store, name, metadata) ==
    [store EXCEPT ![name] = [@ EXCEPT !.metadata = metadata,
                                      !.lastModified = lastWrite(store) + 1]]

\* one run of the analyzer job: the verdict blob is written and the metadata
\* of the analyzed memory blob updated
analyzer ==
    /\ findLatestUnanalyzed(blobs) # <<>>
    /\ \E bothClean \in BOOLEAN :
         LET target == findLatestUnanalyzed(blobs)
             currentMemory == blobs[target].body.value
             finalVerdict == IF bothClean THEN "approved" ELSE "blocked"
             withVerdict ==
                 put(blobs, <<"verdicts/", currentMemory.run_id, ".json">>,
                     [verdict |-> finalVerdict],
                     [run_id |-> currentMemory.run_id, verdict |-> finalVerdict])
         IN  blobs' = setMetadata(withVerdict, target,
                         [analyzed |-> "true",
                          approved |-> IF bothClean THEN "true" ELSE "false",
                          verdict |-> finalVerdict] @@ blobs[target].metadata)
    /\ UNCHANGED <<proc, config, conn, act, mem, rateWindows, now, ticks, done>>

\* what a model call can come to: the call is rejected (network failure or a
\* non-2xx status), or the answer's text is no JSON, the JSON value null, or a
\* JSON object with the verdict it names
ModelAnswers ==
    { [kind |-> "rejected"], [kind |-> "text"], [kind |-> "null"] }
    \cup { [kind |-> "object", verdict |-> v] :
              v \in {"clean", "suspicious"} }

\* askClaude: throws when the call fails, returns JSON.parse of the answer,
\* or a "suspicious" result when JSON.parse throws
askClaude(answer) ==
    CASE answer.kind = "rejected" -> [kind |-> "thrown"]
      [] answer.kind = "text" -> [kind |-> "object", verdict |-> "suspicious"]
      [] OTHER -> answer

\* askOpenAI: as askClaude, against the other API
askOpenAI(answer) ==
    CASE answer.kind = "rejected" -> [kind |-> "thrown"]
      [] answer.kind = "text" -> [kind |-> "object", verdict |-> "suspicious"]
      [] OTHER -> answer

\* main of the analyzer, given what the two model calls come to: the store
\* it leaves and its exit code. A rejected call makes Promise.all reject before
\* either result is assigned, so the catch block replaces both; reading
\* `.verdict` of null throws, main().catch logs and exits 1.
main(store, claude, openai) ==
    LET target == findLatestUnanalyzed(store)
        failed == askClaude(claude).kind = "thrown" \/ askOpenAI(openai).kind = "thrown"
        apiFailed == [kind |-> "object", verdict |-> "suspicious"]
        claudeResult == IF failed THEN apiFailed ELSE askClaude(claude)
        openaiResult == IF failed THEN apiFailed ELSE askOpenAI(openai)
    IN  IF target = <<>>
        THEN [store |-> store, exitCode |-> 0]
        ELSE IF claudeResult.kind = "null" \/ openaiResult.kind = "null"
        THEN [store |-> store, exitCode |-> 1]
        ELSE
        LET currentMemory == store[target].body.value
            bothClean == claudeResult.verdict = "clean" /\ openaiResult.verdict = "clean"
            finalVerdict == IF bothClean THEN "approved" ELSE "blocked"
            withVerdict ==
                put(store, <<"verdicts/", currentMemory.run_id, ".json">>,
                    [verdict |-> finalVerdict,
                     claude |-> [verdict |-> claudeResult.verdict],
                     openai |-> [verdict |-> openaiResult.verdict]],
                    [run_id |-> currentMemory.run_id, verdict |-> finalVerdict])
        IN  [store |-> setMetadata(withVerdict, target,
                          [analyzed |-> "true",
                           approved |-> IF bothClean THEN "true" ELSE "false",
                           verdict |-> finalVerdict] @@ store[target].metadata),
             exitCode |-> IF bothClean THEN 0 ELSE 1]

\* one run of the analyzer job with the model calls' outcomes; `done` holds
\* the run: the blob it analyzed, the outcomes, the exit code
analyzerJob ==
    /\ \E claude \in ModelAnswers, openai \in ModelAnswers :
         LET run == main(blobs, claude, openai)
         IN  /\ blobs' = run.store
             /\ done' = [Blank EXCEPT !.arm = "analyzer", !.pc = "exited",
                                      !.req = [target |-> findLatestUnanalyzed(blobs),
                                               claude |-> claude, openai |-> openai],
                                      !.res = run.exitCode]
    /\ UNCHANGED <<proc, config, conn, act, mem, rateWindows, now, ticks>>

\* the memory API, one request at a time, and the analyzer job
NextAnalyzer ==
    \/ MemRequestAlone
    \/ MemExistsResolved
    \/ MemUploadResolved
    \/ analyzerJob

NextMem ==
    \/ MemRequest
    \/ MemExistsResolved
    \/ MemUploadResolved
    \/ MemStoreRejected

\* requests one after another, against a store that answers
NextMemSeq ==
    \/ MemRequestAlone
    \/ MemExistsResolved
    \/ MemUploadResolved

\* ------------------------------------------------- allowlist.ts: SIGHUP
\* process.on("SIGHUP"): reload from configPath, log the outcome; `files` is
\* what the file can hold at the signal
reload(files) ==
    /\ alive
    /\ Len(proc.loads) <= MaxReloads
    /\ \E file \in files :
         LET l == loadAllowlist(file, config)
         IN  /\ config' = l.cachedConfig
             /\ proc' = [proc EXCEPT
                    !.loads = Append(@, file),
                    !.log = IF l.threw
                            THEN "Failed to reload allowlist on SIGHUP"
                            ELSE "Allowlist reloaded via SIGHUP"]
    /\ UNCHANGED <<conn, act, mem, rateWindows, now, ticks, blobs, done>>

\* a reload signal while the file is absent, no JSON, or a well-formed
\* allowlist
SIGHUP == reload(ConfigFiles)

\* a JSON value without an allowedDomains list (e.g. `{}`), as the value of
\* config: `currentConfig.allowedDomains` is undefined
NoAllowedDomains == << [domain |-> undefined, methods |-> {}] >>

\* a reload signal while the file holds any JSON value, or none
SIGHUPAnyJson == reload(ConfigFiles \cup {jsonFile(NoAllowedDomains)})

\* a request head arrives while no other connection is open
onDataAlone ==
    /\ conn = EmptyBag
    /\ onData

\* the same, under a config that has its allowedDomains list
onDataListed ==
    /\ config # NoAllowedDomains
    /\ onDataAlone

\* a request head arrives while config.allowedDomains is undefined:
\* handleConnect's `currentConfig.allowedDomains.find` throws a TypeError in
\* the "data" listener, which ends the process; /health's
\* `currentConfig.allowedDomains.length` throws inside handleHttp's try block
\* and is answered 400; for any other request isAllowed throws inside the
\* async handleHttp, whose promise nobody handles: the request is never
\* answered, and the runtime may end the process for the unhandled rejection
onDataNoList ==
    /\ listening
    /\ config = NoAllowedDomains
    /\ conn = EmptyBag
    /\ \E head \in Heads, exits \in BOOLEAN :
         LET base == [Blank EXCEPT !.req = head, !.cfg = config]
             error == "TypeError: undefined is not an object (evaluating 'currentConfig.allowedDomains.find')"
         IN  IF head.method = "CONNECT"
             THEN /\ done' = [base EXCEPT !.arm = "connect", !.pc = "thrown"]
                  /\ proc' = [proc EXCEPT !.phase = "exited", !.exitCode = 1,
                                          !.log = error]
             ELSE IF head.form = "origin" /\ head.path = <<"health">>
             THEN /\ done' = closed([base EXCEPT !.arm = "health",
                                                 !.written = << [status |-> 400] >>])
                  /\ proc' = proc
             ELSE /\ done' = [base EXCEPT !.arm = "forward", !.pc = "thrown"]
                  /\ proc' = IF exits
                             THEN [proc EXCEPT !.phase = "exited", !.exitCode = 1,
                                               !.log = error]
                             ELSE proc
    /\ UNCHANGED <<conn, config, act, mem, rateWindows, now, ticks, blobs>>

\* reload signals with any file content, and the requests that follow
NextConfig ==
    \/ SIGHUPAnyJson
    \/ onDataListed
    \/ onDataNoList
    \/ ConnectEstablished
    \/ TargetError
    \/ TunnelClose
    \/ HttpResponse
    \/ HttpFailure

\* the forwarding arm with the redirects its fetch follows
NextRedirect ==
    \/ onDataAlone
    \/ HttpRedirected
    \/ HttpResponse
    \/ HttpFailure

\* reload signals, with connections handled one after another
NextReload ==
    \/ SIGHUP
    \/ onDataAlone
    \/ ConnectEstablished
    \/ TargetError
    \/ TunnelClose
    \/ HttpResponse
    \/ HttpFailure

\* the memory API with GET /memory/latest and the analyzer job
NextLatest ==
    \/ MemRequest
    \/ LatestRequest
    \/ MemExistsResolved
    \/ MemUploadResolved
    \/ MemListResolved
    \/ MemDownloadResolved
    \/ MemStoreRejected
    \/ analyzer

\* GET /memory/latest arrives while no other /memory request is in flight
LatestRequestAlone ==
    /\ mem = EmptyBag
    /\ LatestRequest

\* the same with requests handled one after another, against a store that
\* answers
NextLatestSeq ==
    \/ MemRequestAlone
    \/ LatestRequestAlone
    \/ MemExistsResolved
    \/ MemUploadResolved
    \/ MemListResolved
    \/ MemDownloadResolved
    \/ analyzer

\* --------------------------------------------------- index.ts: SIGTERM
\* process.on("SIGTERM"): log, server.close(() => process.exit(0)),
\* setTimeout(() => process.exit(1), 10000)
SIGTERM ==
    /\ proc.phase = "running"
    /\ proc' = [proc EXCEPT !.phase = "draining",
                            !.log = "Received SIGTERM, shutting down gracefully"]
    /\ UNCHANGED <<config, conn, act, mem, rateWindows, now, ticks, blobs, done>>

\* the callback of server.close: the listener is closed and the last
\* connection has ended
serverClosed ==
    /\ proc.phase = "draining"
    /\ conn = EmptyBag
    /\ proc' = [proc EXCEPT !.phase = "exited", !.exitCode = 0]
    /\ UNCHANGED <<config, conn, act, mem, rateWindows, now, ticks, blobs, done>>

\* the 10 s timer fires with connections still open
deadline ==
    /\ proc.phase = "draining"
    /\ conn # EmptyBag
    /\ proc' = [proc EXCEPT !.phase = "exited", !.exitCode = 1]
    /\ UNCHANGED <<config, conn, act, mem, rateWindows, now, ticks, blobs, done>>

NextTerm ==
    \/ SIGTERM
    \/ serverClosed
    \/ deadline
    \/ onData
    \/ ConnectEstablished
    \/ TargetError
    \/ TunnelClose
    \/ HttpResponse
    \/ HttpFailure

\* ------------------------------------- index.ts: tunnel teardown, by socket
\* the client socket of an established tunnel closes (the client's FIN or an
\* error); its "close" event is emitted
clientSocketClosed ==
    /\ alive
    /\ \E r \in BagToSet(conn) :
         /\ r.pc = "tunnel"
         /\ conn' = add(remove(conn, r), [r EXCEPT !.pc = "clientClosed"])
    /\ UNCHANGED <<proc, config, act, mem, rateWindows, now, ticks, blobs, done>>

\* clientSocket.on("close") / on("error"): targetSocket.end() sends a FIN; the
\* target socket stays open for reading until the upstream ends its side
onClientClose ==
    /\ alive
    /\ \E r \in BagToSet(conn) :
         /\ r.pc = "clientClosed"
         /\ conn' = add(remove(conn, r), [r EXCEPT !.pc = "targetEnded"])
    /\ UNCHANGED <<proc, config, act, mem, rateWindows, now, ticks, blobs, done>>

\* the upstream ends its side of the half-closed target socket
targetPeerEnds ==
    /\ alive
    /\ \E r \in BagToSet(conn) :
         /\ r.pc = "targetEnded"
         /\ done' = closed(r)
         /\ conn' = remove(conn, r)
    /\ UNCHANGED <<proc, config, act, mem, rateWindows, now, ticks, blobs>>

\* the target socket of an established tunnel closes (the upstream's FIN);
\* its "close" event is emitted
targetSocketClosed ==
    /\ alive
    /\ \E r \in BagToSet(conn) :
         /\ r.pc = "tunnel"
         /\ conn' = add(remove(conn, r), [r EXCEPT !.pc = "targetClosed"])
    /\ UNCHANGED <<proc, config, act, mem, rateWindows, now, ticks, blobs, done>>

\* targetSocket.on("close"): clientSocket.end() sends a FIN; the client
\* socket stays open for reading until the client ends its side
onTargetClose ==
    /\ alive
    /\ \E r \in BagToSet(conn) :
         /\ r.pc = "targetClosed"
         /\ conn' = add(remove(conn, r), [r EXCEPT !.pc = "clientEnded"])
    /\ UNCHANGED <<proc, config, act, mem, rateWindows, now, ticks, blobs, done>>

\* the client ends its side of the half-closed client socket
clientPeerEnds ==
    /\ alive
    /\ \E r \in BagToSet(conn) :
         /\ r.pc = "clientEnded"
         /\ done' = closed(r)
         /\ conn' = remove(conn, r)
    /\ UNCHANGED <<proc, config, act, mem, rateWindows, now, ticks, blobs>>

NextTunnel ==
    \/ onDataAlone
    \/ ConnectEstablished
    \/ clientSocketClosed
    \/ onClientClose
    \/ targetPeerEnds
    \/ targetSocketClosed
    \/ onTargetClose
    \/ clientPeerEnds
    \/ HttpResponse
    \/ HttpFailure

\* ---------------------------------------------- allowlist.ts: isAllowed
\* allowlists for isAllowed: none, the two above, one entry without a path
\* set followed by another domain, one entry with an empty path list
Config3 ==
    << [domain |-> "evil.example.com", methods |-> {"DELETE"}],
       [domain |-> "api.anthropic.com", methods |-> {"GET", "CONNECT"}] >>

Config4 ==
    << [domain |-> "api.anthropic.com", methods |-> {"POST"}, paths |-> <<>>] >>

AllowlistInputs == Configs \cup {<<>>, Config3, Config4}

\* a piece of a path may continue the one before it: the last of these is
\* "/v1/messages-old"
PathInputs ==
    { <<>>, <<"v1">>, <<"v1", "messages">>, <<"v2", "models">>,
      <<"v1", "messages", "-old">> }

MethodInputs == {"GET", "get", "POST", "post", "CONNECT", "DELETE"}

\* a call of isAllowed with the loaded config; `done` holds the arguments
\* and, as entry, the result
callIsAllowed ==
    /\ alive
    /\ \E hostname \in Hosts, method \in MethodInputs, path \in PathInputs :
         done' = [Blank EXCEPT
                    !.arm = "isAllowed",
                    !.pc = "closed",
                    !.req = [hostname |-> hostname, method |-> method, path |-> path],
                    !.cfg = config,
                    !.entry = isAllowed(hostname, method, path, config)]
    /\ UNCHANGED <<proc, config, conn, act, mem, rateWindows, now, ticks, blobs>>

\* a call of sanitize; `done` holds the argument and, as written, the result
callSanitize ==
    /\ alive
    /\ done.arm = "sanitize"
    /\ done.written = <<>>
    /\ done' = [done EXCEPT !.pc = "closed", !.written = << sanitize(done.req) >>]
    /\ UNCHANGED <<proc, config, conn, act, mem, rateWindows, now, ticks, blobs>>

\* sanitize is called with the content it returned
callSanitizeAgain ==
    /\ alive
    /\ done.arm = "sanitize"
    /\ Len(done.written) = 1
    /\ done' = [done EXCEPT !.written = Append(@, sanitize(done.written[1].content))]
    /\ UNCHANGED <<proc, config, conn, act, mem, rateWindows, now, ticks, blobs>>

NextSanitize ==
    \/ callSanitize
    \/ callSanitizeAgain

\* the documents the validators are called with
ValidatorInputs ==
    { [schema |-> "memory",
       value |-> MemoryFileWith(run_id, 0, repeat(postSeenEntry(post_id), n))] :
         run_id \in {"abc-123", "has spaces!", Repeat128, Repeat129},
         post_id \in {"p1", "bad id!", Repeat128, Repeat129},
         n \in {0, 1, 10000, 10001} }
    \cup
    { [schema |-> "post", value |-> [content |-> content, thread_id |-> thread_id]] :
         content \in {<<>>, <<"x">>, <<"hello">>, <<"x * 500">>, <<LongText>>},
         thread_id \in {"t1", "bad id!", Repeat128, Repeat129} }
    \cup
    { [schema |-> "post", value |-> [content |-> content]] :
         content \in {<<>>, <<"x">>, <<"x * 500">>, <<LongText>>} }
    \cup
    { [schema |-> "vote", value |-> [post_id |-> post_id]] :
         post_id \in {"p1", "bad id!", Repeat128, Repeat129} }

\* validateMemory(data); `done` holds the argument and, as written, the result
callValidateMemory ==
    /\ alive
    /\ done.arm = "validate" /\ done.req.schema = "memory" /\ done.written = <<>>
    /\ done' = [done EXCEPT !.pc = "closed",
                            !.written = << [success |-> validateMemory(done.req.value)] >>]
    /\ UNCHANGED <<proc, config, conn, act, mem, rateWindows, now, ticks, blobs>>

\* postRequestSchema.safeParse(parsed)
callPostRequestSchema ==
    /\ alive
    /\ done.arm = "validate" /\ done.req.schema = "post" /\ done.written = <<>>
    /\ done' = [done EXCEPT !.pc = "closed",
                            !.written = << [success |-> postRequestSchema(done.req.value)] >>]
    /\ UNCHANGED <<proc, config, conn, act, mem, rateWindows, now, ticks, blobs>>

\* voteRequestSchema.safeParse(parsed)
callVoteRequestSchema ==
    /\ alive
    /\ done.arm = "validate" /\ done.req.schema = "vote" /\ done.written = <<>>
    /\ done' = [done EXCEPT !.pc = "closed",
                            !.written = << [success |-> voteRequestSchema(done.req.value)] >>]
    /\ UNCHANGED <<proc, config, conn, act, mem, rateWindows, now, ticks, blobs>>

\* the keys the rate limiter is called with, one of them unknown to it
RateKeys == {"post_hourly", "post_daily", "vote_hourly", "comment_hourly"}

\* windows as earlier requests can have left them
WindowSamples == { <<>>, <<0>>, <<0, TickMs \div 2>>, <<0, 0, 0>> }

\* the times of a call: half an hour, an hour, a day after the first timestamp
CallTimes == { TickMs \div 2, TickMs, 24 * TickMs }

\* a call of checkRateLimit(key); `done` holds the key, the windows and the
\* time of the call, and as written the result
callCheckRateLimit ==
    /\ alive
    /\ done.arm = "rate"
    /\ done.written = <<>>
    /\ LET check == checkRateLimit(done.req.key, rateWindows, now)
       IN  /\ rateWindows' = check.windows
           /\ done' = [done EXCEPT !.pc = "closed",
                                   !.req = [key |-> done.req.key, op |-> "check",
                                            windows |-> rateWindows, t |-> now],
                                   !.written = << [allowed |-> check.allowed] >>]
    /\ UNCHANGED <<proc, config, conn, act, mem, now, ticks, blobs>>

\* a call of recordRate(key)
callRecordRate ==
    /\ alive
    /\ done.arm = "rate"
    /\ done.written = <<>>
    /\ rateWindows' = recordRate(done.req.key, rateWindows, now)
    /\ done' = [done EXCEPT !.pc = "closed",
                            !.req = [key |-> done.req.key, op |-> "record",
                                     windows |-> rateWindows, t |-> now],
                            !.written = << [recorded |-> TRUE] >>]
    /\ UNCHANGED <<proc, config, conn, act, mem, now, ticks, blobs>>

NextRate ==
    \/ callCheckRateLimit
    \/ callRecordRate

NextValidate ==
    \/ callValidateMemory
    \/ callPostRequestSchema
    \/ callVoteRequestSchema

NextAllowed ==
    \/ callIsAllowed
    \/ SIGHUP

InitWith(cfgs) ==
    /\ config \in cfgs
    /\ conn = EmptyBag
    /\ act = EmptyBag
    /\ mem = EmptyBag
    /\ rateWindows = [post_hourly |-> <<>>, post_daily |-> <<>>, vote_hourly |-> <<>>]
    /\ now = 0
    /\ ticks = 0
    /\ blobs = <<>>
    /\ done = Blank
    /\ proc = [phase |-> "running", exitCode |-> NoExit,
               loads |-> << jsonFile(config) >>,
               log |-> "Proxy listening on port"]

Init == InitWith(Configs)

\* the state before a call of a pure function on the argument done.req
InitCall(arm, inputs) ==
    /\ config = Config1
    /\ conn = EmptyBag
    /\ act = EmptyBag
    /\ mem = EmptyBag
    /\ rateWindows = [post_hourly |-> <<>>, post_daily |-> <<>>, vote_hourly |-> <<>>]
    /\ now = 0
    /\ ticks = 0
    /\ blobs = <<>>
    /\ done \in { [Blank EXCEPT !.arm = arm, !.req = input] : input \in inputs }
    /\ proc = [phase |-> "running", exitCode |-> NoExit,
               loads |-> << jsonFile(config) >>,
               log |-> "Proxy listening on port"]

\* the rate limiter is about to be called with a key, with windows as
\* earlier requests left them
InitRate ==
    /\ config = Config1
    /\ conn = EmptyBag
    /\ act = EmptyBag
    /\ mem = EmptyBag
    /\ rateWindows \in [post_hourly : WindowSamples, post_daily : WindowSamples,
                        vote_hourly : WindowSamples]
    /\ now \in CallTimes
    /\ ticks = 0
    /\ blobs = <<>>
    /\ done \in { [Blank EXCEPT !.arm = "rate", !.req = [key |-> key]] : key \in RateKeys }
    /\ proc = [phase |-> "running", exitCode |-> NoExit,
               loads |-> << jsonFile(config) >>,
               log |-> "Proxy listening on port"]

\* a document is about to be given to a validator
InitValidate == InitCall("validate", ValidatorInputs)

\* a string is about to be given to sanitize
InitSanitize == InitCall("sanitize", Contents)

InitOne == InitWith({Config1})

SpecNet == Init /\ [][NextNet]_vars
SpecConfig == Init /\ [][NextConfig]_vars
SpecHead == Init /\ [][NextHead]_vars
SpecRedirect == Init /\ [][NextRedirect]_vars
SpecAct == InitOne /\ [][NextAct]_vars
SpecVote == InitOne /\ [][NextVote]_vars
SpecAnalyzer == InitOne /\ [][NextAnalyzer]_vars
SpecRate == InitRate /\ [][NextRate]_vars
SpecValidate == InitValidate /\ [][NextValidate]_vars
SpecSanitize == InitSanitize /\ [][NextSanitize]_vars
SpecParse == Init /\ [][NextParse]_vars
SpecRelay == InitOne /\ [][NextRelay]_vars
SpecActSeq == InitOne /\ [][NextActSeq]_vars
SpecMem == InitOne /\ [][NextMem]_vars
SpecMemSeq == InitOne /\ [][NextMemSeq]_vars
SpecReload == Init /\ [][NextReload]_vars
SpecLatest == InitOne /\ [][NextLatest]_vars
SpecLatestSeq == InitOne /\ [][NextLatestSeq]_vars
SpecAllowed == InitWith(AllowlistInputs) /\ [][NextAllowed]_vars

\* the event loop runs the handler of an event that was emitted; nothing
\* obliges a peer to end its side
SpecTunnel ==
    /\ Init
    /\ [][NextTunnel]_vars
    /\ WF_vars(onClientClose)
    /\ WF_vars(onTargetClose)

\* the event loop runs the close callback and the timer once they are due
SpecTerm ==
    /\ Init
    /\ [][NextTerm]_vars
    /\ WF_vars(serverClosed)
    /\ WF_vars(deadline)

Next ==
    \/ NextNet \/ NextAct \/ NextRelay \/ NextActSeq \/ NextVote \/ NextMem \/ NextLatest
    \/ NextReload \/ NextAllowed \/ NextTerm
    \/ NextTunnel \/ NextParse \/ NextSanitize
    \/ NextValidate \/ NextAnalyzer \/ NextRate \/ NextRedirect
    \/ NextHead \/ NextConfig
Spec == Init /\ [][Next]_vars

\* ------------------------------------------------------------ properties
\* the upstream open u of request r is covered by an entry of the config r
\* was decided against
covered(r, u) ==
    \E i \in 1..Len(r.cfg) :
        /\ r.cfg[i].domain = u.hostname
        /\ toUpperCase(u.method) \in r.cfg[i].methods
        /\ ("paths" \in DOMAIN r.cfg[i] /\ Len(r.cfg[i].paths) > 0) =>
              \E k \in 1..Len(r.cfg[i].paths) : startsWith(u.path, r.cfg[i].paths[k])

\* C1: no tunnel and no forwarding fetch is opened unless the allowlist has an
\* entry with the request's host, its uppercased method (CONNECT for a tunnel)
\* and, when the entry restricts paths, a path that is a prefix of the request's.
C1_UpstreamOnlyIfAllowlisted ==
    \A r \in BagToSet(conn) \cup {done} :
        r.arm \in {"connect", "forward"} =>
            \A k \in 1..Len(r.upstream) : covered(r, r.upstream[k])

\* C2: under any interleaving of POST /memory requests, no blob is written by
\* more than one upload (each upload is answered 200), so at most one request
\* per run_id is answered 200 and a stored blob is never overwritten.
C2_AtMostOneUploadPerBlob ==
    \A name \in DOMAIN blobs :
        startsWith(name, <<"memory/">>) => blobs[name].uploads <= 1

\* C3: with POST /memory requests handled one after another, a request whose
\* run_id already has a blob is answered 409, and no step changes the body or
\* the metadata of a stored blob.
C3_SequentialRewriteRejected ==
    /\ [](done.arm = "memory" /\ done.existed =>
            Len(done.written) = 1 /\ done.written[1].status = 409)
    /\ [][\A name \in DOMAIN blobs :
            /\ name \in DOMAIN blobs'
            /\ blobs'[name].body = blobs[name].body
            /\ blobs'[name].metadata = blobs[name].metadata]_vars

\* C3 witness: a byte-identical document was posted again and answered 409
C3_Witness ==
    /\ done.arm = "memory"
    /\ done.existed
    /\ done.written[1].status = 409
    /\ blobs[blobName(done.req.body.value.run_id)].body = done.req.body

\* the timestamps of a window that lie within its horizon
withinHorizon(key) ==
    SelectSeq(rateWindows[key], LAMBDA x : now - x < rateLimits[key].windowMs)

\* C4: in every reachable state each rate window holds at most `max` timestamps
\* within its horizon.
C4_WindowsWithinCaps ==
    \A key \in DOMAIN rateLimits : Len(withinHorizon(key)) <= rateLimits[key].max

\* C5: a /post or /vote request has recorded into a rate window only if its
\* upstream call succeeded with a 2xx answer.
C5_RecordOnlyOnUpstreamSuccess ==
    \A r \in BagToSet(act) \cup {done} :
        r.arm \in {"post", "vote"} /\ r.recorded > 0 => ok(r.res)

\* a POST /post whose content matches one of the injection patterns
injecting(r) ==
    /\ r.arm = "post"
    /\ r.req.body.kind = "json"
    /\ "content" \in DOMAIN r.req.body.value
    /\ \E i \in 1..Len(r.req.body.value.content), k \in 1..Len(ALL_PATTERNS) :
          r.req.body.value.content[i] \in ALL_PATTERNS[k].matches

matchedCategories(content) ==
    { ALL_PATTERNS[k].name : k \in { j \in 1..Len(ALL_PATTERNS) :
          \E i \in 1..Len(content) : content[i] \in ALL_PATTERNS[j].matches } }

\* C6 as stated: every POST /post with injection content is answered 400 with
\* the matched categories, makes no upstream call and records no timestamp.
C6_InjectionAlways400 ==
    injecting(done) =>
        /\ done.written[1].status = 400
        /\ "patterns" \in DOMAIN done.written[1]
        /\ done.upstream = <<>>
        /\ done.recorded = 0

\* C6 as amended: a POST /post that passes schema validation and has injection
\* content is never forwarded and never recorded; it is answered 429 when a
\* rate window is at its cap, and otherwise 400 with the matched categories.
C6_InjectionNeverForwarded ==
    /\ \A r \in BagToSet(act) : ~ injecting(r)
    /\ injecting(done) /\ postRequestSchema(done.req.body.value) =>
          /\ done.upstream = <<>>
          /\ done.recorded = 0
          /\ Len(done.written) = 1
          /\ IF done.limited # ""
             THEN done.written[1].status = 429
             ELSE /\ done.written[1].status = 400
                  /\ "patterns" \in DOMAIN done.written[1]
                  /\ { done.written[1].patterns[k] :
                          k \in 1..Len(done.written[1].patterns) }
                       = matchedCategories(done.req.body.value.content)

\* C6 witness: an injection post was answered 400 with its categories
C6_Witness ==
    /\ injecting(done)
    /\ done.written[1].status = 400
    /\ "patterns" \in DOMAIN done.written[1]
    /\ Len(done.written[1].patterns) = 2

\* C7: an origin-form request for /post, /vote, /memory or /memory/latest that
\* names the proxy in its Host header, or has none, is handled locally: it is
\* never checked against the allowlist, answered 403 or forwarded.
C7_LocalEndpointNotForwarded ==
    \A r \in BagToSet(conn) \cup {done} :
        ~ /\ r.arm = "forward"
          /\ r.req.form = "origin"
          /\ r.req.path \in { <<"post">>, <<"vote">>, <<"memory">>,
                              <<"memory", "latest">> }
          /\ r.req.hostHeader \in {ProxyHost, NoHost}

\* C8: every request of the forwarding arm or of a local endpoint that has
\* terminated produced exactly one audit record.
C8_ExactlyOneAuditRecord ==
    done.pc = "closed"
        /\ done.arm \in {"forward", "health", "router", "post", "vote", "memory"}
    => Len(done.records) = 1

\* C9: every CONNECT attempt produces exactly one audit record over the
\* lifetime of its connection.
C9_OneRecordPerConnect ==
    /\ \A r \in BagToSet(conn) : r.arm = "connect" => Len(r.records) <= 1
    /\ done.arm = "connect" => Len(done.records) = 1

\* C10: every audit record of a request answered 400, 403, 409, 413 or 429 has
\* allowed = false and a non-empty blocked_reason.
C10_DeniedRecordsBlocked ==
    done.pc = "closed" /\ Len(done.written) > 0
        /\ done.written[Len(done.written)].status \in {400, 403, 409, 413, 429}
    => \A k \in 1..Len(done.records) :
          /\ done.records[k].allowed = FALSE
          /\ "blocked_reason" \in DOMAIN done.records[k]
          /\ done.records[k].blocked_reason # <<>>

\* C11: on a CONNECT connection, once 200 Connection Established has been
\* written to the client, the proxy writes no further response of its own on
\* that connection: the 200 is the last thing it wrote.
C11_NothingWrittenAfter200 ==
    \A r \in BagToSet(conn) \cup {done} :
        r.arm = "connect" =>
            \A k \in 1..Len(r.written) :
                r.written[k].status = 200 => k = Len(r.written)

\* the requests of the forwarding arm and of the local endpoints in flight
pending(c, a, m) ==
    { r \in BagToSet(c) : r.arm = "forward" } \cup BagToSet(a) \cup BagToSet(m)

\* C12: a request of the forwarding arm or of a local endpoint that has
\* terminated was answered exactly once, and none stays in flight for ever,
\* because its upstream or store call is cut off by a timeout: no such request
\* is still in flight when the clock has advanced by TickMs (one hour, beyond
\* any timeout the calls could carry).
C12_AnsweredOnceWithinTimeout ==
    /\ [](done.arm \in {"forward", "health", "router", "post", "vote", "memory"}
            => Len(done.written) = 1)
    /\ [][now' >= now + TickMs => pending(conn', act', mem') = {}]_vars

\* the content of the most recent load that succeeded
RECURSIVE lastLoaded(_)
lastLoaded(loads) ==
    IF loads = <<>> THEN <<>>
    ELSE IF loads[Len(loads)].kind = "json" THEN loads[Len(loads)].value
    ELSE lastLoaded(SubSeq(loads, 1, Len(loads) - 1))

\* the requests a step has decided against the allowlist
decided(c, c2, d, d2) ==
    { r \in BagToSet(c2) \ BagToSet(c) : r.pc \in {"connecting", "fetching"} }
    \cup { r \in {d2} \ {d} : Len(r.written) = 1 /\ r.written[1].status = 403 }

\* C13: after any sequence of reload signals the active config is the content
\* of the most recent load that succeeded; a reload whose file cannot be read
\* or parsed leaves the config as it was and logs an error, and the process
\* keeps running and decides every request against that config.
C13_ReloadKeepsLastGoodConfig ==
    /\ [](/\ config = lastLoaded(proc.loads)
          /\ proc.phase = "running"
          /\ proc.loads[Len(proc.loads)].kind # "json"
                => proc.log = "Failed to reload allowlist on SIGHUP")
    /\ [][/\ Len(proc.loads') > Len(proc.loads)
             /\ proc.loads'[Len(proc.loads')].kind # "json" => config' = config
          /\ \A r \in decided(conn, conn', done, done') :
                r.cfg = lastLoaded(proc.loads)]_vars

\* C13 witness: a reload replaced the startup config, a later reload failed,
\* and a request was then refused under the config of the successful reload
C13_Witness ==
    /\ Len(proc.loads) = 3
    /\ proc.loads[2].kind = "json"
    /\ proc.loads[2].value # proc.loads[1].value
    /\ proc.loads[3].kind # "json"
    /\ config = proc.loads[2].value
    /\ done.arm = "forward"
    /\ done.cfg = config
    /\ done.cfg # proc.loads[1].value
    /\ done.written[1].status = 403

\* the memory blobs of a store whose metadata has approved = "true"
approvedBlobs(store) ==
    { n \in DOMAIN store : /\ startsWith(n, <<"memory/">>)
                           /\ "approved" \in DOMAIN store[n].metadata
                           /\ store[n].metadata.approved = "true" }

\* a GET /memory/latest that was answered 200
latestAnswered(r) ==
    /\ r.arm = "memory"
    /\ r.req = GetLatest
    /\ r.pc = "closed"
    /\ r.written[1].status = 200

\* C14: GET /memory/latest selects, among the blobs under memory/ whose
\* metadata has approved = "true", the one with the greatest lastModified, and
\* answers with its body; what it answers with is never the content of a blob
\* whose approved flag is not "true"; it answers 200 with data null exactly
\* when there is no approved blob, whatever other blobs there are.
C14_LatestIsNewestApproved ==
    [][/\ \A r \in BagToSet(mem') \ BagToSet(mem) :
            r.pc = "download" =>
                /\ r.latestBlob \in approvedBlobs(blobs)
                /\ \A m \in approvedBlobs(blobs) :
                      blobs[m].lastModified <= blobs[r.latestBlob].lastModified
       /\ latestAnswered(done') /\ BagCardinality(mem') < BagCardinality(mem) =>
            IF "message" \in DOMAIN done'.written[1]
            THEN approvedBlobs(blobs) = {}
            ELSE /\ done'.latestBlob \in approvedBlobs(blobs)
                 /\ done'.written[1].data = blobs[done'.latestBlob].body.value]_vars

\* C15: every blob stored under memory/ consists only of the fields the
\* memory-file schema defines: no key outside the schema, and so no free-form
\* text of the agent's, is ever persisted.
C15_StoredBlobsHaveSchemaFieldsOnly ==
    \A name \in DOMAIN blobs :
        startsWith(name, <<"memory/">>) =>
            /\ DOMAIN blobs[name].body.value \subseteq memoryFileSchema
            /\ validateMemory(blobs[name].body.value)

expectedAnswers(req) ==
    IF req.body.len = 0 THEN { <<400, "Empty body">> }
    ELSE IF req.body.len >= 1048577
    THEN { <<413, "Memory file exceeds 1MB limit">> }
    ELSE IF req.body.kind # "json" THEN { <<400, "Invalid JSON">> }
    ELSE IF ~ validateMemory(req.body.value)
    THEN { <<400, "Schema validation failed">> }
    ELSE { <<409, "Memory blob already exists for this run_id">>,
           <<200, "">>, <<500, "Internal error">> }

\* C17: POST /memory answers by the first check that fails, in the order
\* empty body (400), size (413: 1,048,577 bytes or more, whatever the
\* content; exactly 1,048,576 bytes pass), JSON (400), schema (400),
\* existence (409); and the store is written only by a step that answers 200,
\* so no request answered 400, 409 or 413 has written.
C17_MemoryChecksInOrder ==
    /\ [](done.arm = "memory" /\ done.req.method = "POST"
            /\ done.req.path = <<"memory">> =>
              /\ Len(done.written) = 1
              /\ <<done.written[1].status,
                    IF "error" \in DOMAIN done.written[1]
                    THEN done.written[1].error ELSE "">>
                      \in expectedAnswers(done.req)
              /\ done.written[1].status = 409 =>
                    blobName(done.req.body.value.run_id) \in DOMAIN blobs)
    /\ [][blobs' # blobs =>
            /\ BagCardinality(mem') < BagCardinality(mem)
            /\ done'.arm = "memory"
            /\ done'.written[1].status = 200
            /\ \A name \in DOMAIN blobs' :
                  (name \notin DOMAIN blobs \/ blobs'[name] # blobs[name])
                      => name = blobName(done'.req.body.value.run_id)]_vars

\* C17 witness: a valid document padded to exactly 1,048,576 bytes was stored
C17_Witness ==
    /\ done.arm = "memory"
    /\ done.req.body.len = 1048576
    /\ done.written[1].status = 200
    /\ blobName(done.req.body.value.run_id) \in DOMAIN blobs
    /\ blobs[blobName(done.req.body.value.run_id)].body.len = 1048576

\* a POST /post whose body passes schema validation
validPosts ==
    { req \in PostRequests :
        /\ req.method = "POST" /\ req.path = <<"post">>
        /\ req.body.kind = "json"
        /\ postRequestSchema(req.body.value) }

\* C18: with /post requests handled one after another, the hourly window
\* never holds more than three timestamps within the hour; while it holds
\* three, a /post is answered 429 with a reason beginning "Rate limit
\* exceeded: post_hourly" and makes no upstream call; once the oldest of them
\* is an hour old, so that fewer than three remain within the hour, a /post
\* with clean content is admitted again and forwarded.
C18_HourlyCapThenAdmittedAgain ==
    /\ Len(withinHorizon("post_hourly")) <= 3
    /\ act = EmptyBag =>
          \A req \in validPosts :
              LET r == handlePostRequest(req, rateWindows, now).r
              IN  IF Len(withinHorizon("post_hourly")) = 3
                  THEN /\ r.pc = "closed"
                       /\ r.upstream = <<>>
                       /\ Len(r.written) = 1
                       /\ r.written[1].status = 429
                       /\ SubSeq(r.written[1].error, 1, 2)
                             = <<"Rate limit exceeded: ", "post_hourly">>
                  ELSE Len(withinHorizon("post_daily")) < 10 =>
                         /\ r.written = <<>> \/ r.written[1].status # 429
                         /\ matchedCategories(req.body.value.content) = {} =>
                               /\ r.pc = "fetching"
                               /\ Len(r.upstream) = 1

\* C18 witness: three posts were recorded, the fourth was answered 429, and
\* with the oldest timestamp an hour old and the other two not, a further
\* post has been admitted
C18_Witness ==
    /\ done.limited = "post_hourly"
    /\ done.written[1].status = 429
    /\ Len(rateWindows.post_daily) = 3
    /\ now - rateWindows.post_daily[1] >= rateLimits.post_hourly.windowMs
    /\ Len(rateWindows.post_hourly) = 2
    /\ Len(withinHorizon("post_hourly")) = 2
    /\ \E r \in BagToSet(act) : r.pc = "fetching" /\ Len(r.upstream) = 1

\* the entries of a config for a host, by position
entriesFor(cfg, hostname) == { i \in 1..Len(cfg) : cfg[i].domain = hostname }

\* C19: isAllowed decides on the first entry whose domain equals the host and
\* on no later one: without such an entry it denies with "Domain not in
\* allowlist: <host>"; if the uppercased method is not among the entry's
\* methods it denies with "Method <M> not allowed for <host>"; if the entry
\* restricts paths and none of them is a prefix of the request path it denies
\* with "Path <p> not in allowed paths for <host>"; otherwise it allows.
C19_FirstEntryDecides ==
    done.arm = "isAllowed" =>
        LET host == done.req.hostname
            M == toUpperCase(done.req.method)
            p == done.req.path
            mine == entriesFor(done.cfg, host)
        IN  IF mine = {}
            THEN done.entry = [allowed |-> FALSE,
                               reason |-> <<"Domain not in allowlist: ", host>>]
            ELSE LET first == done.cfg[CHOOSE i \in mine : \A j \in mine : i <= j]
                     restricted == "paths" \in DOMAIN first /\ first.paths # <<>>
                 IN  IF M \notin first.methods
                     THEN done.entry =
                            [allowed |-> FALSE,
                             reason |-> <<"Method ", M, " not allowed for ", host>>]
                     ELSE IF restricted /\ \A k \in 1..Len(first.paths) :
                                                ~ startsWith(p, first.paths[k])
                     THEN done.entry =
                            [allowed |-> FALSE,
                             reason |-> <<"Path ", p, " not in allowed paths for ", host>>]
                     ELSE done.entry = [allowed |-> TRUE]

\* C19 witness: the first entry of the host refused a lowercase method that
\* the second entry of the same host lists, with a path that entry allows
C19_Witness ==
    /\ done.arm = "isAllowed"
    /\ done.cfg = Config2
    /\ done.req = [hostname |-> "api.anthropic.com", method |-> "get",
                   path |-> <<"v2", "models">>]
    /\ done.entry = [allowed |-> FALSE,
                     reason |-> <<"Method ", "GET", " not allowed for ",
                                  "api.anthropic.com">>]

\* C20: after SIGTERM the listener accepts no new connection and the process
\* eventually exits, with code 0 if every connection had ended by then (before
\* the deadline) and with code 1 if one was still open at the deadline.
C20_GracefulShutdown ==
    /\ [][proc.phase # "running" =>
            BagCardinality(conn') <= BagCardinality(conn)]_vars
    /\ (proc.phase = "draining") ~> (proc.phase = "exited")
    /\ [](proc.phase = "exited" =>
            /\ proc.exitCode \in {0, 1}
            /\ proc.exitCode = 0 <=> conn = EmptyBag)
    /\ [](proc.phase # "exited" => proc.exitCode = NoExit)

\* C20 witness: the process exited with code 1 while a tunnel was open
C20_Witness ==
    /\ proc.phase = "exited"
    /\ proc.exitCode = 1
    /\ \E r \in BagToSet(conn) : r.pc = "tunnel"

\* C21: once one socket of an established tunnel has closed, both sockets of
\* the tunnel are eventually closed; no tunnel stays half-open forever.
C21_TunnelTornDown ==
    (\E r \in BagToSet(conn) : r.pc \in {"clientClosed", "targetClosed"})
        ~> (conn = EmptyBag)

\* C22: a /post or /vote request that reached the upstream is answered 200
\* only when the upstream status was 2xx; a non-2xx upstream answer yields 502
\* with the upstream status and body, a failed upstream call yields 502 with
\* an error and a message; a single JSON answer is written and the
\* connection is closed.
C22_UpstreamOutcomeRelayed ==
    (done.arm \in {"post", "vote"} /\ done.upstream # <<>>) =>
        LET w == done.written[1]
            answered == "moltbook_status" \in DOMAIN done.entry
            failed == "blocked_reason" \in DOMAIN done.entry
        IN  /\ done.pc = "closed"
            /\ Len(done.written) = 1
            /\ w.status \in {200, 502}
            /\ w.status = 200 =>
                  /\ answered /\ ~ failed
                  /\ done.res >= 200 /\ done.res <= 299
                  /\ w.moltbook_status = done.res
            /\ (answered /\ ~ failed /\ ~ (done.res >= 200 /\ done.res <= 299)) =>
                  /\ w.status = 502
                  /\ w.moltbook_status = done.res
                  /\ w.body = done.responseBody
                  /\ "error" \in DOMAIN w
            /\ failed =>
                  /\ w.status = 502
                  /\ {"error", "message"} \subseteq DOMAIN w
                  /\ "body" \notin DOMAIN w

\* C22 witness: an upstream 500 came back to the client as 502 with its body
C22_Witness ==
    /\ done.arm = "post"
    /\ done.res = 500
    /\ done.written = << [status |-> 502, error |-> "Moltbook returned error",
                          moltbook_status |-> 500,
                          body |-> "<html>Service Unavailable</html>"] >>

\* C23: a request whose request line is malformed is answered 400 and its
\* connection closed; it opens no upstream connection and raises no unhandled
\* exception in the proxy process.
C23_MalformedLineAnswered400 ==
    done.arm = "malformed" =>
        /\ done.pc = "closed"
        /\ Len(done.written) = 1
        /\ done.written[1].status = 400
        /\ done.upstream = <<>>
        /\ alive

\* C24: an origin-form request that names the proxy itself in its Host header
\* and whose path is not a local endpoint is answered 404; it is not answered
\* 403 and not forwarded.
C24_UnknownLocalPath404 ==
    \A r \in BagToSet(conn) \cup {done} :
        (/\ r.arm \in {"forward", "health"}
         /\ r.req.form = "origin"
         /\ r.req.hostHeader = ProxyHost
         /\ r.req.path \notin { <<"health">>, <<"post">>, <<"vote">>, <<"memory">>,
                                <<"memory", "latest">> })
        => /\ r.pc = "closed"
           /\ r.upstream = <<>>
           /\ Len(r.written) = 1
           /\ r.written[1].status = 404

\* C25: every result of sanitize has sanitized true exactly when patterns is
\* non-empty, names each category at most once in patterns, and returns its
\* input unchanged when sanitized is false.
C25_SanitizeResultConsistent ==
    (done.arm = "sanitize" /\ done.written # <<>>) =>
        \A k \in 1..Len(done.written) :
            LET input == IF k = 1 THEN done.req ELSE done.written[k - 1].content
                result == done.written[k]
            IN  /\ result.sanitized <=> result.patterns # <<>>
                /\ \A i, j \in 1..Len(result.patterns) :
                       result.patterns[i] = result.patterns[j] => i = j
                /\ ~ result.sanitized => result.content = input

\* C25 witness: two patterns of one category fired and the category is named
\* once
C25_Witness ==
    /\ done.arm = "sanitize"
    /\ done.req = <<"curl ", "wget ">>
    /\ Len(done.written) = 1
    /\ done.written[1].content = <<REPLACEMENT, REPLACEMENT>>
    /\ done.written[1].patterns = <<"data_exfiltration">>

\* C26: sanitize is idempotent: sanitizing the content it returned returns
\* that content unchanged, with no pattern matching it.
C26_SanitizeIdempotent ==
    (done.arm = "sanitize" /\ Len(done.written) = 2) =>
        /\ done.written[2].content = done.written[1].content
        /\ ~ done.written[2].sanitized

\* C27: a document with a top-level field the memory-file schema does not
\* define fails validation: POST /memory answers it 400 "Schema validation
\* failed", whatever its other fields.
C27_UnknownFieldRejected ==
    (/\ done.arm = "memory"
     /\ done.req.method = "POST" /\ done.req.path = <<"memory">>
     /\ done.req.body.kind = "json"
     /\ done.req.body.len > 0 /\ done.req.body.len <= MAX_MEMORY_SIZE_BYTES
     /\ DOMAIN done.req.body.value \ memoryFileSchema # {})
    => /\ done.pc = "closed"
       /\ done.written = << [status |-> 400, error |-> "Schema validation failed"] >>

\* C28: the validators' length bounds are inclusive. With its other fields
\* valid, a memory file of 10,000 entries is accepted and one of 10,001 is
\* rejected; a post_id, thread_id or run_id of 128 characters is accepted and
\* one of 129 is rejected; /post content of length 1 or 500 is accepted and of
\* length 0 or 501 is rejected.
C28_LengthBoundsInclusive ==
    (done.arm = "validate" /\ done.written # <<>>) =>
        LET v == done.req.value
            success == done.written[1].success
            shortId == {"p1", "t1", "abc-123"}
        IN  /\ done.req.schema = "memory" =>
                  /\ (v.run_id = "abc-123" /\ v.entries.entry.post_id = "p1") =>
                        /\ v.entries.n = 10000 => success
                        /\ v.entries.n = 10001 => ~ success
                  /\ (v.entries.n = 1 /\ v.entries.entry.post_id = "p1") =>
                        /\ v.run_id = Repeat128 => success
                        /\ v.run_id = Repeat129 => ~ success
                  /\ (v.entries.n = 1 /\ v.run_id = "abc-123") =>
                        /\ v.entries.entry.post_id = Repeat128 => success
                        /\ v.entries.entry.post_id = Repeat129 => ~ success
            /\ done.req.schema = "post" =>
                  /\ ("thread_id" \in DOMAIN v => v.thread_id = "t1") =>
                        /\ length(v.content) \in {1, 500} => success
                        /\ length(v.content) \in {0, 501} => ~ success
                  /\ ("thread_id" \in DOMAIN v /\ v.content = <<"hello">>) =>
                        /\ v.thread_id = Repeat128 => success
                        /\ v.thread_id = Repeat129 => ~ success
            /\ done.req.schema = "vote" =>
                  /\ v.post_id = Repeat128 => success
                  /\ v.post_id = Repeat129 => ~ success

\* C28 witness: a memory file of exactly 10,000 entries with a post_id of 128
\* characters was accepted
C28_Witness ==
    /\ done.arm = "validate"
    /\ done.req.schema = "memory"
    /\ done.req.value.entries.n = 10000
    /\ done.req.value.entries.entry.post_id = Repeat128
    /\ done.written = << [success |-> TRUE] >>

\* C29: a memory blob has approved = "true" only when the verdict of both
\* models was exactly "clean"; after an analyzer run in which a model call
\* failed, answered something that is no JSON, or answered anything without
\* the verdict "clean", the analyzed blob has analyzed = "true", approved =
\* "false" and verdict "blocked", and the written verdict is "blocked".
C29_ApprovedOnlyIfBothClean ==
    /\ \A name \in DOMAIN blobs :
          ("approved" \in DOMAIN blobs[name].metadata
              /\ blobs[name].metadata.approved = "true") =>
            LET verdictBlobName == <<"verdicts/", blobs[name].metadata.run_id, ".json">>
            IN  /\ verdictBlobName \in DOMAIN blobs
                /\ blobs[verdictBlobName].body.verdict = "approved"
                /\ blobs[verdictBlobName].body.claude.verdict = "clean"
                /\ blobs[verdictBlobName].body.openai.verdict = "clean"
    /\ (/\ done.arm = "analyzer"
        /\ done.req.target # <<>>
        /\ ~ (done.req.claude = [kind |-> "object", verdict |-> "clean"]
                /\ done.req.openai = [kind |-> "object", verdict |-> "clean"]))
       => LET target == blobs[done.req.target]
              verdictBlobName == <<"verdicts/", target.metadata.run_id, ".json">>
          IN  /\ "analyzed" \in DOMAIN target.metadata
              /\ target.metadata.analyzed = "true"
              /\ target.metadata.approved = "false"
              /\ target.metadata.verdict = "blocked"
              /\ verdictBlobName \in DOMAIN blobs
              /\ blobs[verdictBlobName].body.verdict = "blocked"

\* C30: within one /post request the steps occur in the order parse,
\* validate, rate-limit check, sanitize, upstream call, rate-limit record, log,
\* respond: while the upstream call is pending nothing was recorded in the rate
\* windows and no audit record of the request was emitted; once it has
\* returned the windows are recorded before the audit record is emitted; and
\* a request arriving at a full rate window with content that matches an
\* injection pattern is answered 429, not 400.
C30_PostStepOrder ==
    /\ [](\A r \in BagToSet(act) :
            r.arm = "post" =>
              /\ r.pc = "fetching" => (r.recorded = 0 /\ r.records = <<>>)
              /\ r.pc = "reading" => (r.recorded = 2 /\ r.records = <<>>))
    /\ [][(/\ done' # done
           /\ done'.arm = "post"
           /\ done'.pc = "closed"
           /\ done'.upstream = <<>>
           /\ done'.req.method = "POST"
           /\ done'.req.body.kind = "json"
           /\ postRequestSchema(done'.req.body.value)
           /\ sanitize(done'.req.body.value.content).sanitized
           /\ \/ ~ checkRateLimit("post_hourly", rateWindows, now).allowed
              \/ ~ checkRateLimit("post_daily", rateWindows, now).allowed)
          => done'.written[1].status = 429]_vars

\* the requests in flight and the one that terminated last
requests == BagToSet(conn) \cup BagToSet(act) \cup BagToSet(mem) \cup {done}

\* C31: whenever an arm has written a non-2xx response (400, 403, 404, 405,
\* 409, 413, 429, 500 or 502) to a request, an audit record of that request
\* has been emitted.
C31_AuditRecordBeforeNon2xx ==
    \A r \in requests :
      \A k \in 1..Len(r.written) :
        r.written[k].status \notin 200..299 => Len(r.records) >= 1

\* C32: for an allowed CONNECT nothing is written to the client while the
\* upstream connection is being made, so 200 Connection Established is written
\* only once it is established; a connection whose upstream failed before that
\* was answered 502 alone, never 200, and is closed.
C32_EstablishedBefore200 ==
    \A r \in requests :
      (r.arm = "connect" /\ r.upstream # <<>>) =>
        /\ r.pc = "connecting" => r.written = <<>>
        /\ \A k \in 1..Len(r.written) :
             r.written[k].status = 200 => (k = 1 /\ r.pc \notin {"idle", "connecting"})
        /\ (r.written # <<>> /\ r.written[1].status = 502) =>
             (r.pc = "closed" /\ Len(r.written) = 1)

\* one allowed CONNECT failed while connecting and was answered 502, another
\* is established and was answered 200
C32_Witness ==
    /\ done.arm = "connect"
    /\ done.pc = "closed"
    /\ done.upstream # <<>>
    /\ done.written = << [status |-> 502] >>
    /\ \E r \in BagToSet(conn) :
         r.arm = "connect" /\ r.pc = "tunnel" /\ r.written = << [status |-> 200] >>

\* the decision isAllowed or handleConnect's find gives a request under a config
decisionUnder(r, cfg) ==
    IF r.arm = "connect"
    THEN find(cfg, parseHostPort(r.req).hostname) # 0
    ELSE isAllowed(targetUrl(r.req).hostname, r.req.method,
                   targetUrl(r.req).pathname, cfg).allowed

\* the configs that were active at some time: the values of the loads that
\* succeeded
loadedConfigs ==
    { proc.loads[k].value : k \in { j \in 1..Len(proc.loads) : proc.loads[j].kind = "json" } }

\* C33: the allowlist decision of every request is the decision under one
\* config that was active as a whole (host, method and path are checked
\* against the same snapshot, never a mixture of two configs); a reload signal
\* changes no request in flight, and a request that was decided keeps its
\* snapshot and its decision until it terminates.
C33_OneSnapshotPerRequest ==
    /\ [](\A r \in requests :
            r.arm \in {"connect", "forward"} =>
              /\ r.cfg \in loadedConfigs
              /\ r.entry.allowed = decisionUnder(r, r.cfg))
    /\ [][/\ proc.loads' # proc.loads => (conn' = conn /\ done' = done)
          /\ \A r \in BagToSet(conn) \ BagToSet(conn') :
                /\ \A r2 \in BagToSet(conn') \ BagToSet(conn) :
                      r2.cfg = r.cfg /\ r2.entry.allowed = r.entry.allowed
                /\ done' # done =>
                      (done'.cfg = r.cfg /\ done'.entry.allowed = r.entry.allowed)]_vars

\* a forwarded request is in flight whose snapshot is no longer the active
\* config, and the active config would refuse it
C33_Witness ==
    \E r \in BagToSet(conn) :
      /\ r.arm = "forward"
      /\ r.pc = "fetching"
      /\ r.cfg # config
      /\ r.entry.allowed
      /\ ~ decisionUnder(r, config)

\* C34: in every reachable state each rate window holds only timestamps that
\* lie within its horizon (one hour for post_hourly and vote_hourly, 24 hours
\* for post_daily).
C34_NoExpiredTimestampStored ==
    \A key \in DOMAIN rateLimits : rateWindows[key] = withinHorizon(key)

\* C35: a call of checkRateLimit(key) leaves the window of every other key as
\* it was, adds no timestamp, and removes from the checked window nothing but
\* timestamps outside its horizon; a call of recordRate(key) appends exactly
\* one timestamp, the time of the call, to the window of that key and leaves
\* the other windows as they were.
C35_CheckReadsRecordAppends ==
    (done.arm = "rate" /\ done.written # <<>>) =>
      LET key == done.req.key
          before == done.req.windows
          t == done.req.t
      IN  /\ \A k \in DOMAIN before : k # key => rateWindows[k] = before[k]
          /\ DOMAIN rateWindows = DOMAIN before
          /\ (key \in DOMAIN before /\ done.req.op = "check") =>
                /\ Len(rateWindows[key]) <= Len(before[key])
                /\ \A i \in 1..Len(rateWindows[key]) :
                      \E j \in 1..Len(before[key]) : before[key][j] = rateWindows[key][i]
                /\ SelectSeq(rateWindows[key],
                             LAMBDA x : t - x < rateLimits[key].windowMs)
                     = SelectSeq(before[key],
                                 LAMBDA x : t - x < rateLimits[key].windowMs)
          /\ (key \in DOMAIN before /\ done.req.op = "record") =>
                rateWindows[key] = Append(before[key], t)

\* a check that granted a slot and dropped an expired timestamp
C35_Witness ==
    /\ done.arm = "rate"
    /\ done.written = << [allowed |-> TRUE] >>
    /\ done.req.key = "post_hourly"
    /\ done.req.windows.post_hourly = <<0, TickMs \div 2>>
    /\ done.req.windows.vote_hourly = <<0>>
    /\ done.req.t = TickMs
    /\ rateWindows.post_hourly = << TickMs \div 2 >>

\* the request a step of the sequential relay handled, as the step leaves it
acted(a2, d2) == IF a2 # EmptyBag THEN CHOOSE r \in BagToSet(a2) : TRUE ELSE d2

\* C36: a /vote request never reads or changes post_hourly or post_daily and
\* a /post request never reads or changes vote_hourly: the answer of each does
\* not depend on the other's windows and no step of it changes them; the step
\* in which the upstream call of a /post returned adds exactly one timestamp to
\* each of post_hourly and post_daily, that of a /vote exactly one to
\* vote_hourly, and no other step of the request adds any.
C36_PostAndVoteWindowsSeparate ==
    /\ [](/\ \A req \in VoteRequests :
               handleVote(req, rateWindows, now).r
                 = handleVote(req, [rateWindows EXCEPT !.post_hourly = <<>>,
                                                      !.post_daily = <<>>], now).r
          /\ \A req \in PostRequests :
               handlePostRequest(req, rateWindows, now).r
                 = handlePostRequest(req, [rateWindows EXCEPT !.vote_hourly = <<>>], now).r)
    /\ [][LET r == acted(act', done')
              returned == r.pc = "reading"
          IN  /\ r.arm = "vote" =>
                    /\ rateWindows'.post_hourly = rateWindows.post_hourly
                    /\ rateWindows'.post_daily = rateWindows.post_daily
                    /\ rateWindows'.vote_hourly =
                          IF returned THEN Append(rateWindows.vote_hourly, now)
                          ELSE rateWindows.vote_hourly
              /\ r.arm = "post" =>
                    /\ rateWindows'.vote_hourly = rateWindows.vote_hourly
                    /\ rateWindows'.post_hourly =
                          IF returned THEN Append(rateWindows.post_hourly, now)
                          ELSE rateWindows.post_hourly
                    /\ rateWindows'.post_daily =
                          IF returned THEN Append(rateWindows.post_daily, now)
                          ELSE rateWindows.post_daily
              /\ (r.pc = "closed" /\ r.written[1].status = 200) =>
                    r.recorded = IF r.arm = "post" THEN 2 ELSE 1]_vars

\* a vote was forwarded and answered 200 while post_hourly is at its cap
C36_Witness ==
    /\ done.arm = "vote"
    /\ done.pc = "closed"
    /\ done.written[1].status = 200
    /\ done.recorded = 1
    /\ Len(rateWindows.post_hourly) = 3
    /\ Len(rateWindows.post_daily) = 3
    /\ Len(rateWindows.vote_hourly) >= 1

\* C37: every fetch the forwarding arm makes for a request goes to the host of
\* the request, with a method and a path that the config the request was
\* decided against allows for that host.
C37_FetchesOnlyCheckedHost ==
    \A r \in BagToSet(conn) \cup {done} :
      r.arm = "forward" =>
        \A k \in 1..Len(r.upstream) :
          /\ r.upstream[k].hostname = targetUrl(r.req).hostname
          /\ isAllowed(r.upstream[k].hostname, r.upstream[k].method,
                       r.upstream[k].path, r.cfg).allowed

\* C38: every memory blob the proxy writes carries analyzed = "false" and
\* approved = "false"; no step of the proxy turns approved into "true"; and a
\* GET /memory/latest answers with a document only if, when it reads the blob,
\* the metadata the write gave it has been changed to approved = "true" since.
C38_WrittenUnapproved ==
    [][/\ \A n \in DOMAIN blobs' :
            (/\ startsWith(n, <<"memory/">>)
             /\ (n \in DOMAIN blobs => blobs'[n].uploads > blobs[n].uploads)) =>
               /\ blobs'[n].metadata.analyzed = "false"
               /\ blobs'[n].metadata.approved = "false"
       /\ (mem' # mem \/ done' # done) =>
            \A n \in approvedBlobs(blobs') : n \in approvedBlobs(blobs)
       /\ (/\ latestAnswered(done')
           /\ BagCardinality(mem') < BagCardinality(mem)
           /\ "message" \notin DOMAIN done'.written[1]) =>
             done'.latestBlob \in approvedBlobs(blobs)]_vars

\* C39: a connection is handled by the tunneling or the forwarding arm only
\* when the end of its request head was found in the buffer: no request whose
\* buffer reached 64 KiB without a terminator is parsed and dispatched.
C39_DispatchOnlyCompleteHead ==
    \A r \in BagToSet(conn) \cup {done} :
      r.arm \in {"connect", "forward", "health"} => r.headerEnd >= 0

\* C40: after any sequence of the startup load and reload signals the active
\* config has its allowedDomains list (a file that is valid JSON without one
\* is not activated), and no request fails with an exception during its
\* allowlist check.
C40_ActiveConfigWellFormed ==
    /\ config # NoAllowedDomains
    /\ done.pc # "thrown"
====
